---- MODULE Spec2Model ----
(***************************************************************************)
(* cenv: the environment lifecycle state machine of src/src/cenv/core.py   *)
(* (init, create, switch, delete, restore), the name validator of          *)
(* src/src/cenv/validation.py and the remote clone of                      *)
(* src/src/cenv/github.py, over an abstract filesystem.                    *)
(*                                                                         *)
(* A string is a sequence of one-character strings, so that the validator  *)
(* and the trash-name parser work on characters as the code does.          *)
(***************************************************************************)
EXTENDS Naturals, Sequences, FiniteSets, TLC

\* ------------------------------------------------------------- bounds
\* Number of concurrent callers (threads or processes) of the core.
NumProcs == 3
\* Longest string handed to the validator when its inputs are enumerated.
MaxNameLen == 3
\* The wall clock runs over 1..MaxTime (one value per second).
MaxTime == 2
\* The number of calls made in one run.
MaxCalls == 6
\* The symbolic links a path resolution follows before it gives up.
MaxHops == 3

Procs == 1 .. NumProcs
Times == 1 .. MaxTime

\* ------------------------------------------------------------- strings
Lower == {"a", "b", "c", "d", "e", "f", "g", "h", "i", "j", "k", "l", "m",
          "n", "o", "p", "q", "r", "s", "t", "u", "v", "w", "x", "y", "z"}
Upper == {"A", "B", "C", "D", "E", "F", "G", "H", "I", "J", "K", "L", "M",
          "N", "O", "P", "Q", "R", "S", "T", "U", "V", "W", "X", "Y", "Z"}
Digit == {"0", "1", "2", "3", "4", "5", "6", "7", "8", "9"}

\* The characters the enumerated validator inputs are built from: members of
\* the class, a dot, both path separators, whitespace, a shell
\* metacharacter and a non-ASCII letter.
Alphabet == {"a", "Z", "0", "_", "-", ".", "/", "\\", " ", "\t", "\n", ";", "é"}

StringsOfLen(n) == [1 .. n -> Alphabet]
StringsUpTo(n) == UNION {StringsOfLen(k) : k \in 0 .. n}

DEFAULT == <<"d", "e", "f", "a", "u", "l", "t">>
DOT_TRASH == <<".", "t", "r", "a", "s", "h">>

\* ------------------------------------------------------------- validation.py
\* The character class [a-zA-Z0-9_-] of VALID_NAME_PATTERN.
NameClass == Lower \cup Upper \cup Digit \cup {"_", "-"}

RESERVED_NAMES == {<<".">>, <<".", ".">>, DOT_TRASH, <<".", "g", "i", "t">>,
                   <<".", "b", "a", "c", "k", "u", "p">>}

\* Python's "$" (no re.MULTILINE): the end of the string, or just before a
\* newline that is the string's last character.
AtDollar(s, k) ==
    \/ k = Len(s)
    \/ k = Len(s) - 1 /\ s[Len(s)] = "\n"

\* VALID_NAME_PATTERN.match(name) for r'^[a-zA-Z0-9_-]+$': a non-empty run of
\* class characters from position 1 up to a position where "$" matches.
PatternMatch(s) ==
    \E k \in 1 .. Len(s) :
        /\ \A i \in 1 .. k : s[i] \in NameClass
        /\ AtDollar(s, k)

\* validate_environment_name: "ok", or the error it raises.
validate_environment_name(name) ==
    IF name = <<>> THEN "InvalidName"
    ELSE IF name \in RESERVED_NAMES THEN "InvalidName"
    ELSE IF ~PatternMatch(name) THEN "InvalidName"
    ELSE "ok"

\* ------------------------------------------------------------- filesystem
\* The files a configuration directory may hold.
Files == {"CLAUDE.md", "settings.json"}

\* A directory listing: a function from the names present to their nodes.
Empty == << >>
Get(d, k) == IF k \in DOMAIN d THEN d[k] ELSE [k |-> "none", c |-> {}, t |-> <<>>, sub |-> Empty]
Put(d, k, v) ==
    IF v.k = "none"
      THEN [x \in DOMAIN d \ {k} |-> d[x]]
      ELSE [x \in DOMAIN d \cup {k} |-> IF x = k THEN v ELSE d[x]]

\* A filesystem node: nothing, a directory holding the files c and the
\* subdirectories sub, or a symbolic link to the environment path of name t
\* (get_env_path(t)).
None == [k |-> "none", c |-> {}, t |-> <<>>, sub |-> Empty]
Dir(c) == [k |-> "dir", c |-> c, t |-> <<>>, sub |-> Empty]
Link(t) == [k |-> "link", c |-> {}, t |-> t, sub |-> Empty]

VARIABLES
    fs,         \* the filesystem under the home directory, a record:
                \*   claude    the node at ~/.claude (get_claude_dir)
                \*   tmp       the node at ~/.claude.tmp (switch's temp_link)
                \*   envsDir   whether ~/.claude-envs exists (get_envs_dir)
                \*   envs      the listing of ~/.claude-envs but .trash:
                \*             name -> node (get_env_path), the clone's
                \*             .tmp_<name> included
                \*   trashDir  whether ~/.claude-envs/.trash exists
                \*   trash     the listing of .trash: backup name -> node
                \*   home      the other children of ~: name -> node
                \*             (the backups ~/.claude.backup.<timestamp>,
                \*             and what a path with ".." reaches)
    lockPath,   \* the inode cenv-init.lock names, 0 when the file is absent
    lockHeld,   \* inode -> the caller whose open file holds its flock, or 0
    switchLock, \* the caller inside "with _switch_lock", or 0
    now,        \* the wall clock, in seconds
    pc,         \* caller -> its position in the operation it runs
    op,         \* caller -> the operation and its arguments
    loc,        \* caller -> the operation's local variables
    res,        \* caller -> how its last operation ended
    hist,       \* history: orig, the node at ~/.claude before anything ran;
                \* inited, whether some init call has returned success;
                \* calls, the number of calls made; last, the latest
                \* successful delete: its name, the trash entry it named,
                \* the tree it moved, and the number of its call
    vname,      \* the string handed to the validator
    vres        \* the validator's answer for vname, "pending" before the call

lockvars == <<lockPath, lockHeld, switchLock>>
procvars == <<pc, op, loc, res>>
valvars == <<vname, vres>>
vars == <<fs, lockvars, procvars, valvars, now, hist>>

orig == hist.orig

\* ------------------------------------------------------------- names
ENV_A == <<"a">>
ENV_X == <<"x", "-", "-">>
\* The names environments are created under in the model.
EnvNames == {DEFAULT, ENV_A, ENV_X}
\* Names the validator rejects, handed to the operations as arguments.
BadNames == {<<>>, <<".", ".">>, DOT_TRASH, <<".", ".", "/", "a">>}
ArgNames == EnvNames \cup BadNames

\* get_env_path(name).exists() and environment_exists(name), for a name
\* without path separators.
environment_exists(name) ==
    /\ fs.envsDir
    /\ name \in DOMAIN fs.envs
    /\ \/ fs.envs[name].k = "dir"
       \/ /\ fs.envs[name].k = "link"
          /\ fs.envs[name].t \in DOMAIN fs.envs
          /\ fs.envs[fs.envs[name].t].k = "dir"

\* Path.exists() follows symbolic links: a link exists when its target does.
NodeExists(n) ==
    \/ n.k = "dir"
    \/ n.k = "link" /\ environment_exists(n.t)

\* get_current_environment: the name the link resolves to (resolve() is not
\* strict, so a dangling link still yields its target's name), or "" (None).
get_current_environment == IF fs.claude.k = "link" THEN fs.claude.t ELSE <<>>

\* list_environments: the directories under the environments root but .trash.
list_environments ==
    IF fs.envsDir THEN {n \in DOMAIN fs.envs : environment_exists(n)} ELSE {}

\* ------------------------------------------------------------- callers
NoOp == [kind |-> "none", name |-> <<>>, src |-> <<>>, force |-> FALSE]
OpRec(kind, name, src, force) ==
    [kind |-> kind, name |-> name, src |-> src, force |-> force]

\* The locals of an operation: fd, the inode init's lock_file is open on;
\* locked, whether its flock succeeded; bdir, the id of init's backup_dir
\* (0 is None); err, the exception in flight; running, the oracle's answer;
\* flag, the result of the last existence test; old and pre, the link and
\* whether the claim's precondition held when the call started (history);
\* ents, the entries copytree has listed and not copied yet; out, the list
\* a listing call returns.
NoLoc == [fd |-> 0, locked |-> FALSE, bdir |-> 0, err |-> "", running |-> FALSE,
          flag |-> FALSE, old |-> None, pre |-> FALSE, ents |-> {}, out |-> <<>>]

Goto(p, label) ==
    /\ pc' = [pc EXCEPT ![p] = label]
    /\ res' = res

Return(p, r) ==
    /\ pc' = [pc EXCEPT ![p] = "idle"]
    /\ res' = [res EXCEPT ![p] = r]

SetLoc(p, f, v) == loc' = [loc EXCEPT ![p] = [loc[p] EXCEPT ![f] = v]]

Idle == \A q \in Procs : pc[q] = "idle"

\* A call of an operation by caller p; alone says whether calls are made one
\* at a time (each completes before the next starts).
Call(p, o, first, pre, alone) ==
    /\ pc[p] = "idle"
    /\ alone => Idle
    /\ hist.calls < MaxCalls
    /\ hist' = [hist EXCEPT !.calls = hist.calls + 1]
    /\ op' = [op EXCEPT ![p] = o]
    /\ loc' = [loc EXCEPT ![p] = [NoLoc EXCEPT !.old = fs.claude, !.pre = pre]]
    /\ pc' = [pc EXCEPT ![p] = first]
    /\ res' = [res EXCEPT ![p] = "running"]

\* ------------------------------------------------------------- switch
CallSwitch(p, names, alone) ==
    \E name \in names, force \in BOOLEAN :
        /\ Call(p, OpRec("switch", name, <<>>, force), "sw_validate",
                fs.claude.k = "link" /\ environment_exists(fs.claude.t)
                    /\ environment_exists(name), alone)
        /\ UNCHANGED <<fs, lockvars, valvars, now>>

\* validate_environment_name(name): core.py line 288.
SwValidate(p) ==
    /\ pc[p] = "sw_validate"
    /\ IF validate_environment_name(op[p].name) = "ok"
         THEN Goto(p, "sw_exists")
         ELSE Return(p, "InvalidName")
    /\ UNCHANGED <<fs, lockvars, valvars, now, hist, op, loc>>

\* A switch that does not look for its target.
SwExistsSkipped(p) ==
    /\ pc[p] = "sw_exists"
    /\ Goto(p, "sw_running")
    /\ UNCHANGED <<fs, lockvars, valvars, now, hist, op, loc>>

\* if not target_env.exists(): raise EnvironmentNotFoundError.
SwExists(p) ==
    /\ pc[p] = "sw_exists"
    /\ IF environment_exists(op[p].name)
         THEN Goto(p, "sw_running")
         ELSE Return(p, "NotFound")
    /\ UNCHANGED <<fs, lockvars, valvars, now, hist, op, loc>>

\* A switch that asks the oracle and goes on whatever it answers.
SwRunningUnguarded(p) ==
    /\ pc[p] = "sw_running"
    /\ \E r \in BOOLEAN : SetLoc(p, "running", r)
    /\ Goto(p, "sw_lock")
    /\ UNCHANGED <<fs, lockvars, valvars, now, hist, op>>

\* if is_claude_running() and not force: raise ClaudeRunningError. The oracle
\* answers either way.
SwRunning(p) ==
    /\ pc[p] = "sw_running"
    /\ \E r \in BOOLEAN :
        /\ SetLoc(p, "running", r)
        /\ IF r /\ ~op[p].force
             THEN Return(p, "ApplicationRunning")
             ELSE Goto(p, "sw_lock")
    /\ UNCHANGED <<fs, lockvars, valvars, now, hist, op>>

\* with _switch_lock: the lock is shared by the threads of one process only.
SwLock(p, threads) ==
    /\ pc[p] = "sw_lock"
    /\ threads => switchLock = 0
    /\ switchLock' = IF threads THEN p ELSE switchLock
    /\ Goto(p, "sw_state")
    /\ UNCHANGED <<fs, lockPath, lockHeld, valvars, now, hist, op, loc>>

\* Leaving the with block, by return or by exception.
SwUnlock(p) == switchLock' = IF switchLock = p THEN 0 ELSE switchLock

\* A switch that does not look at what ~/.claude is.
SwStateSkipped(p) ==
    /\ pc[p] = "sw_state"
    /\ Goto(p, "sw_tmpchk")
    /\ UNCHANGED <<fs, lockvars, valvars, now, hist, op, loc>>

\* if claude_dir.exists() and not claude_dir.is_symlink(): SymlinkStateError.
SwState(p) ==
    /\ pc[p] = "sw_state"
    /\ IF fs.claude.k = "dir"
         THEN Return(p, "SymlinkStateError") /\ SwUnlock(p)
         ELSE Goto(p, "sw_tmpchk") /\ UNCHANGED switchLock
    /\ UNCHANGED <<fs, lockPath, lockHeld, valvars, now, hist, op, loc>>

\* if temp_link.exists(): exists() follows the link.
SwTmpChk(p) ==
    /\ pc[p] = "sw_tmpchk"
    /\ IF NodeExists(fs.tmp) THEN Goto(p, "sw_tmpunlink") ELSE Goto(p, "sw_symlink")
    /\ UNCHANGED <<fs, lockvars, valvars, now, hist, op, loc>>

\* temp_link.unlink(): FileNotFoundError when the link is gone meanwhile.
SwTmpUnlink(p) ==
    /\ pc[p] = "sw_tmpunlink"
    /\ IF fs.tmp.k = "none"
         THEN SetLoc(p, "err", "FileNotFoundError") /\ Goto(p, "sw_except")
                /\ UNCHANGED fs
         ELSE fs' = [fs EXCEPT !.tmp = None] /\ Goto(p, "sw_symlink")
                /\ UNCHANGED loc
    /\ UNCHANGED <<lockvars, valvars, now, hist, op>>

\* temp_link.symlink_to(target_env): FileExistsError when the path is taken.
SwSymlink(p) ==
    /\ pc[p] = "sw_symlink"
    /\ IF fs.tmp.k # "none"
         THEN SetLoc(p, "err", "FileExistsError") /\ Goto(p, "sw_except")
                /\ UNCHANGED fs
         ELSE fs' = [fs EXCEPT !.tmp = Link(op[p].name)] /\ Goto(p, "sw_replace")
                /\ UNCHANGED loc
    /\ UNCHANGED <<lockvars, valvars, now, hist, op>>

\* A replace done as unlink-then-symlink: the link is absent in between.
SwReplaceNaive(p) ==
    /\ pc[p] = "sw_replace"
    /\ IF fs.claude.k # "none"
         THEN fs' = [fs EXCEPT !.claude = None] /\ UNCHANGED <<pc, res, switchLock>>
         ELSE fs' = [fs EXCEPT !.claude = fs.tmp, !.tmp = None]
                /\ Return(p, "ok") /\ SwUnlock(p)
    /\ UNCHANGED <<lockPath, lockHeld, valvars, now, hist, op, loc>>

\* temp_link.replace(claude_dir): one rename(2). It fails when the temporary
\* link is gone or when the destination is a real directory.
SwReplace(p) ==
    /\ pc[p] = "sw_replace"
    /\ IF fs.tmp.k = "none" \/ fs.claude.k = "dir"
         THEN /\ SetLoc(p, "err", IF fs.tmp.k = "none" THEN "FileNotFoundError"
                                                      ELSE "IsADirectoryError")
              /\ Goto(p, "sw_except")
              /\ UNCHANGED <<fs, switchLock>>
         ELSE /\ fs' = [fs EXCEPT !.claude = fs.tmp, !.tmp = None]
              /\ Return(p, "ok")
              /\ SwUnlock(p)
              /\ UNCHANGED loc
    /\ UNCHANGED <<lockPath, lockHeld, valvars, now, hist, op>>

\* temp_link.replace(claude_dir) raises an OSError and has done nothing; flag
\* records it.
SwReplaceFault(p) ==
    /\ pc[p] = "sw_replace"
    /\ loc' = [loc EXCEPT ![p].err = "OSError", ![p].flag = TRUE]
    /\ Goto(p, "sw_except")
    /\ UNCHANGED <<fs, lockvars, valvars, now, hist, op>>

\* except Exception: if temp_link.exists(): temp_link.unlink(); raise.
SwExcept(p) ==
    /\ pc[p] = "sw_except"
    /\ fs' = [fs EXCEPT !.tmp = IF NodeExists(fs.tmp) THEN None ELSE fs.tmp]
    /\ Return(p, loc[p].err)
    /\ SwUnlock(p)
    /\ UNCHANGED <<lockPath, lockHeld, valvars, now, hist, op, loc>>

\* ------------------------------------------------------------- delete
\* datetime.now().strftime("%Y%m%d-%H%M%S") at second t of the clock.
DigitOf(t) == <<"0", "1", "2", "3", "4", "5", "6", "7", "8", "9">>[t + 1]
Stamp(t) == <<"2", "0", "2", "5", "1", "1", "1", "1", "-",
              "1", "4", "3", "0", "2", DigitOf(t)>>

\* backup_name = f"{name}-{timestamp}"
BackupName(name, t) == name \o <<"-">> \o Stamp(t)

\* No delete has succeeded yet.
NoDelete == [name |-> <<>>, entry |-> <<>>, node |-> None, at |-> 0]

CallDelete(p, names, alone) ==
    \E name \in names :
        /\ Call(p, OpRec("delete", name, <<>>, FALSE), "del_validate", FALSE, alone)
        /\ UNCHANGED <<fs, lockvars, valvars, now>>

\* validate_environment_name(name): core.py line 342.
DelValidate(p) ==
    /\ pc[p] = "del_validate"
    /\ IF validate_environment_name(op[p].name) = "ok"
         THEN Goto(p, "del_exists")
         ELSE Return(p, "InvalidName")
    /\ UNCHANGED <<fs, lockvars, valvars, now, hist, op, loc>>

\* if not target_env.exists(): raise EnvironmentNotFoundError.
DelExists(p) ==
    /\ pc[p] = "del_exists"
    /\ IF environment_exists(op[p].name)
         THEN Goto(p, "del_current")
         ELSE Return(p, "NotFound")
    /\ UNCHANGED <<fs, lockvars, valvars, now, hist, op, loc>>

\* A delete that tests for "default" before it tests for the active one.
DelCurrentProtectedFirst(p) ==
    /\ pc[p] = "del_current"
    /\ IF op[p].name = DEFAULT
         THEN Return(p, "ProtectedEnvironment")
         ELSE IF get_current_environment = op[p].name
                THEN Return(p, "ActiveEnvironment")
                ELSE Goto(p, "del_mktrash")
    /\ UNCHANGED <<fs, lockvars, valvars, now, hist, op, loc>>

\* A delete that does not protect "default".
DelCurrentUnprotected(p) ==
    /\ pc[p] = "del_current"
    /\ IF get_current_environment = op[p].name
         THEN Return(p, "ActiveEnvironment")
         ELSE Goto(p, "del_mktrash")
    /\ UNCHANGED <<fs, lockvars, valvars, now, hist, op, loc>>

\* current = get_current_environment(); the active environment is refused,
\* then "default" is.
DelCurrent(p) ==
    /\ pc[p] = "del_current"
    /\ IF get_current_environment = op[p].name
         THEN Return(p, "ActiveEnvironment")
         ELSE IF op[p].name = DEFAULT
                THEN Return(p, "ProtectedEnvironment")
                ELSE Goto(p, "del_mktrash")
    /\ UNCHANGED <<fs, lockvars, valvars, now, hist, op, loc>>

\* trash_dir.mkdir(parents=True, exist_ok=True)
DelMkTrash(p) ==
    /\ pc[p] = "del_mktrash"
    /\ fs' = [fs EXCEPT !.envsDir = TRUE, !.trashDir = TRUE]
    /\ Goto(p, "del_move")
    /\ UNCHANGED <<lockvars, valvars, now, hist, op, loc>>

\* shutil.move(target_env, backup_path) with the timestamp read now: a
\* rename; into backup_path/<name> when backup_path is an existing directory
\* (shutil.Error when that exists too); FileNotFoundError when the
\* environment is gone meanwhile.
DelMove(p) ==
    /\ pc[p] = "del_move"
    /\ LET name == op[p].name
           b == BackupName(name, now)
           src == IF fs.envsDir THEN Get(fs.envs, name) ELSE None
           dst == Get(fs.trash, b)
           done == [hist EXCEPT !.last = [name |-> name, entry |-> b,
                                          node |-> src, at |-> hist.calls]]
       IN  IF src.k = "none"
             THEN Return(p, "FileNotFoundError") /\ UNCHANGED <<fs, hist>>
             ELSE IF dst.k = "none"
               THEN /\ fs' = [fs EXCEPT !.envs = Put(fs.envs, name, None),
                                        !.trashDir = TRUE,
                                        !.trash = Put(fs.trash, b, src)]
                    /\ hist' = done
                    /\ Return(p, "ok")
               ELSE IF name \in DOMAIN dst.sub
                 THEN Return(p, "shutil.Error") /\ UNCHANGED <<fs, hist>>
                 ELSE /\ fs' = [fs EXCEPT
                                  !.envs = Put(fs.envs, name, None),
                                  !.trash = Put(fs.trash, b,
                                      [dst EXCEPT !.sub = Put(dst.sub, name, src)])]
                      /\ hist' = done
                      /\ Return(p, "ok")
    /\ UNCHANGED <<lockvars, valvars, now, op, loc>>

\* The clock moves on by a second.
Tick ==
    /\ now < MaxTime
    /\ now' = now + 1
    /\ UNCHANGED <<fs, lockvars, procvars, valvars, hist>>

\* ------------------------------------------------------------- init
DOT_CLAUDE == <<".", "c", "l", "a", "u", "d", "e">>
\* The basename of a backup directory, ".claude.backup.<timestamp>".
BackupBase(i) == DOT_CLAUDE \o <<".", "b", "a", "c", "k", "u", "p", ".", DigitOf(i)>>

\* The inodes the lock file may be: one per open file plus the path's.
Inodes == 1 .. NumProcs + 1
\* The timestamps (with microseconds) backup directories are named by.
BackupIds == 1 .. NumProcs

\* An inode no path and no open file refers to: what open() creates.
FreshInode ==
    CHOOSE i \in Inodes : i # lockPath /\ \A q \in Procs : loc[q].fd # i

\* A timestamp no backup directory carries.
UnusedBackups ==
    {i \in BackupIds : BackupBase(i) \notin DOMAIN fs.home
                          /\ \A q \in Procs : loc[q].bdir # i}
FreshBackup == CHOOSE i \in UnusedBackups : \A j \in UnusedBackups : i <= j

\* Whether ~/.claude-envs has no entry at all: not any(envs_dir.iterdir()).
EnvsDirEmpty == fs.envs = Empty /\ ~fs.trashDir

\* raise inside init's outer try: the finally clause runs, then the error
\* leaves the call.
InRaise(p, e) ==
    /\ loc' = [loc EXCEPT ![p].err = e]
    /\ Goto(p, "in_unlock")

\* raise inside init's inner try: the except clause runs.
InFail(p) == Goto(p, "in_except") /\ UNCHANGED loc

CallInit(p, alone) ==
    /\ Call(p, OpRec("init", <<>>, <<>>, FALSE), "in_open",
            fs.envsDir \/ fs.claude.k = "link", alone)
    /\ UNCHANGED <<fs, lockvars, valvars, now>>

\* lock_file = open(lock_file_path, "w"): the file the path names, created
\* when the path names none.
InOpen(p) ==
    /\ pc[p] = "in_open"
    /\ LET i == IF lockPath = 0 THEN FreshInode ELSE lockPath
       IN  /\ lockPath' = i
           /\ loc' = [loc EXCEPT ![p].fd = i]
    /\ Goto(p, "in_flock")
    /\ UNCHANGED <<fs, lockHeld, switchLock, valvars, now, hist, op>>

\* fcntl.flock(fd, LOCK_EX | LOCK_NB): the lock is on the open file's inode;
\* BlockingIOError when another open file holds it.
InFlock(p) ==
    /\ pc[p] = "in_flock"
    /\ IF lockHeld[loc[p].fd] = 0
         THEN /\ lockHeld' = [lockHeld EXCEPT ![loc[p].fd] = p]
              /\ loc' = [loc EXCEPT ![p].locked = TRUE]
              /\ Goto(p, "in_chk_link")
         ELSE /\ InRaise(p, "InitInProgress")
              /\ UNCHANGED lockHeld
    /\ UNCHANGED <<fs, lockPath, switchLock, valvars, now, hist, op>>

\* An init that does not look at the link.
InChkLinkSkipped(p) ==
    /\ pc[p] = "in_chk_link"
    /\ Goto(p, "in_chk_envs")
    /\ UNCHANGED <<fs, lockvars, valvars, now, hist, op, loc>>

\* if claude_dir.is_symlink(): raise InitializationError.
InChkLink(p) ==
    /\ pc[p] = "in_chk_link"
    /\ IF fs.claude.k = "link"
         THEN InRaise(p, "LinkAlreadyExists")
         ELSE Goto(p, "in_chk_envs") /\ UNCHANGED loc
    /\ UNCHANGED <<fs, lockvars, valvars, now, hist, op>>

\* if envs_dir.exists(): raise InitializationError.
InChkEnvs(p) ==
    /\ pc[p] = "in_chk_envs"
    /\ IF fs.envsDir
         THEN InRaise(p, "AlreadyInitialized")
         ELSE Goto(p, "in_backup") /\ UNCHANGED loc
    /\ UNCHANGED <<fs, lockvars, valvars, now, hist, op>>

\* if claude_dir.exists() and not claude_dir.is_symlink(): the backup's name
\* is chosen and copytree starts: it lists the source and makes backup_dir.
InBackup(p) ==
    /\ pc[p] = "in_backup"
    /\ IF fs.claude.k = "dir"
         THEN /\ UnusedBackups # {}
              /\ fs' = [fs EXCEPT !.home = Put(fs.home, BackupBase(FreshBackup), Dir({}))]
              /\ loc' = [loc EXCEPT ![p].bdir = FreshBackup]
              /\ Goto(p, "in_backup_copy")
         ELSE /\ Goto(p, "in_mkdir")
              /\ UNCHANGED <<fs, loc>>
    /\ UNCHANGED <<lockvars, valvars, now, hist, op>>

\* shutil.copytree(claude_dir, backup_dir), one file at a step and the
\* subdirectories last; shutil.Error, outside the inner try, when the source
\* is gone meanwhile.
InBackupCopy(p) ==
    /\ pc[p] = "in_backup_copy"
    /\ LET src == fs.claude
           dst == Get(fs.home, BackupBase(loc[p].bdir))
       IN  IF src.k # "dir" \/ dst.k # "dir"
             THEN InRaise(p, "shutil.Error") /\ UNCHANGED fs
             ELSE IF src.c \ dst.c # {}
               THEN /\ \E f \in src.c \ dst.c :
                         fs' = [fs EXCEPT !.home =
                                  Put(fs.home, BackupBase(loc[p].bdir),
                                      [dst EXCEPT !.c = dst.c \cup {f}])]
                    /\ UNCHANGED <<pc, res, loc>>
               ELSE /\ fs' = [fs EXCEPT !.home =
                                Put(fs.home, BackupBase(loc[p].bdir),
                                    [dst EXCEPT !.sub = src.sub])]
                    /\ Goto(p, "in_mkdir")
                    /\ UNCHANGED loc
    /\ UNCHANGED <<lockvars, valvars, now, hist, op>>

\* envs_dir.mkdir(parents=True, exist_ok=True)
InMkdir(p) ==
    /\ pc[p] = "in_mkdir"
    /\ fs' = [fs EXCEPT !.envsDir = TRUE]
    /\ Goto(p, "in_move_chk")
    /\ UNCHANGED <<lockvars, valvars, now, hist, op, loc>>

\* if claude_dir.exists(): move it, else make an empty default.
InMoveChk(p) ==
    /\ pc[p] = "in_move_chk"
    /\ IF NodeExists(fs.claude) THEN Goto(p, "in_move") ELSE Goto(p, "in_mkdefault")
    /\ UNCHANGED <<fs, lockvars, valvars, now, hist, op, loc>>

\* shutil.move(str(claude_dir), str(default_env)): a rename; into
\* default/.claude when default is an existing directory. For a link to
\* default itself the library either renames the link onto the directory,
\* which fails, or moves it into the directory, by its version.
InMove(p) ==
    /\ pc[p] = "in_move"
    /\ LET n == fs.claude
           d == IF fs.envsDir THEN Get(fs.envs, DEFAULT) ELSE None
           into == [fs EXCEPT !.claude = None,
                              !.envs = Put(fs.envs, DEFAULT,
                                           [d EXCEPT !.sub = Put(d.sub, DOT_CLAUDE, n)])]
           onto == [fs EXCEPT !.claude = None, !.envsDir = TRUE,
                              !.envs = Put(fs.envs, DEFAULT, n)]
       IN  CASE n.k = "none" -> InFail(p) /\ UNCHANGED fs
             [] n.k # "none" /\ d.k = "dir" ->
                  IF DOT_CLAUDE \in DOMAIN d.sub
                    THEN InFail(p) /\ UNCHANGED fs
                    ELSE IF n.k = "link" /\ n.t = DEFAULT
                      THEN \/ InFail(p) /\ UNCHANGED fs
                           \/ fs' = into /\ Goto(p, "in_symlink") /\ UNCHANGED loc
                      ELSE fs' = into /\ Goto(p, "in_symlink") /\ UNCHANGED loc
             [] n.k # "none" /\ d.k = "link" ->
                  IF n.k = "link"
                    THEN fs' = onto /\ Goto(p, "in_symlink") /\ UNCHANGED loc
                    ELSE InFail(p) /\ UNCHANGED fs
             [] n.k # "none" /\ d.k = "none" ->
                  IF n.k = "link" /\ ~fs.envsDir
                    THEN InFail(p) /\ UNCHANGED fs
                    ELSE fs' = onto /\ Goto(p, "in_symlink") /\ UNCHANGED loc
    /\ UNCHANGED <<lockvars, valvars, now, hist, op>>

\* default_env.mkdir(parents=True, exist_ok=True)
InMkDefault(p) ==
    /\ pc[p] = "in_mkdefault"
    /\ IF environment_exists(DEFAULT)
         THEN Goto(p, "in_symlink") /\ UNCHANGED <<fs, loc>>
         ELSE IF fs.envsDir /\ DEFAULT \in DOMAIN fs.envs
           THEN InFail(p) /\ UNCHANGED fs
           ELSE /\ fs' = [fs EXCEPT !.envsDir = TRUE,
                                    !.envs = Put(fs.envs, DEFAULT, Dir({}))]
                /\ Goto(p, "in_symlink")
                /\ UNCHANGED loc
    /\ UNCHANGED <<lockvars, valvars, now, hist, op>>

\* claude_dir.symlink_to(default_env): FileExistsError when the path is taken.
InSymlink(p) ==
    /\ pc[p] = "in_symlink"
    /\ IF fs.claude.k # "none"
         THEN InFail(p) /\ UNCHANGED fs
         ELSE /\ fs' = [fs EXCEPT !.claude = Link(DEFAULT)]
              /\ Goto(p, "in_rmbackup")
              /\ UNCHANGED loc
    /\ UNCHANGED <<lockvars, valvars, now, hist, op>>

\* An init that keeps its backup.
InRmBackupKept(p) ==
    /\ pc[p] = "in_rmbackup"
    /\ Goto(p, "in_unlock")
    /\ UNCHANGED <<fs, lockvars, valvars, now, hist, op, loc>>

\* if backup_dir and backup_dir.exists(): shutil.rmtree(backup_dir)
InRmBackup(p) ==
    /\ pc[p] = "in_rmbackup"
    /\ fs' = IF loc[p].bdir = 0 THEN fs
             ELSE [fs EXCEPT !.home = Put(fs.home, BackupBase(loc[p].bdir), None)]
    /\ Goto(p, "in_unlock")
    /\ UNCHANGED <<lockvars, valvars, now, hist, op, loc>>

\* shutil.rmtree(backup_dir) raises an OSError part of the way: the files it
\* reached are removed, the directory and the others stay; the except clause
\* runs.
InRmBackupFault(p) ==
    /\ pc[p] = "in_rmbackup"
    /\ loc[p].bdir # 0
    /\ LET b == Get(fs.home, BackupBase(loc[p].bdir))
       IN  /\ b.k = "dir"
           /\ \E gone \in SUBSET b.c :
                fs' = [fs EXCEPT !.home = Put(fs.home, BackupBase(loc[p].bdir),
                                              [b EXCEPT !.c = b.c \ gone])]
    /\ SetLoc(p, "flag", TRUE)
    /\ Goto(p, "in_except")
    /\ UNCHANGED <<lockvars, valvars, now, hist, op>>

\* A step of init's mutation sequence (mkdir of the root, the move, mkdir of
\* default, symlink_to) raises an OSError and has done nothing; flag records
\* it.
InFault(p) ==
    /\ pc[p] \in {"in_mkdir", "in_move", "in_mkdefault", "in_symlink"}
    /\ SetLoc(p, "flag", TRUE)
    /\ Goto(p, "in_except")
    /\ UNCHANGED <<fs, lockvars, valvars, now, hist, op>>

\* except Exception: the rollback runs only when a backup was made.
InExcept(p) ==
    /\ pc[p] = "in_except"
    /\ IF loc[p].bdir # 0 /\ BackupBase(loc[p].bdir) \in DOMAIN fs.home
         THEN Goto(p, "in_rb_claude") /\ UNCHANGED loc
         ELSE InRaise(p, "InitializationFailed")
    /\ UNCHANGED <<fs, lockvars, valvars, now, hist, op>>

\* if claude_dir.exists(): unlink the link, or rmtree the directory.
InRbClaude(p) ==
    /\ pc[p] = "in_rb_claude"
    /\ fs' = [fs EXCEPT !.claude = IF NodeExists(fs.claude) THEN None ELSE fs.claude]
    /\ Goto(p, "in_rb_default")
    /\ UNCHANGED <<lockvars, valvars, now, hist, op, loc>>

\* if default_env.exists(): shutil.rmtree(default_env), which refuses a link.
InRbDefault(p) ==
    /\ pc[p] = "in_rb_default"
    /\ IF environment_exists(DEFAULT)
         THEN IF fs.envs[DEFAULT].k = "link"
                THEN InRaise(p, "OSError") /\ UNCHANGED fs
                ELSE /\ fs' = [fs EXCEPT !.envs = Put(fs.envs, DEFAULT, None)]
                     /\ Goto(p, "in_rb_envs")
                     /\ UNCHANGED loc
         ELSE Goto(p, "in_rb_envs") /\ UNCHANGED <<fs, loc>>
    /\ UNCHANGED <<lockvars, valvars, now, hist, op>>

\* if envs_dir.exists() and not any(envs_dir.iterdir()): envs_dir.rmdir()
InRbEnvs(p) ==
    /\ pc[p] = "in_rb_envs"
    /\ fs' = [fs EXCEPT !.envsDir = IF EnvsDirEmpty THEN FALSE ELSE fs.envsDir]
    /\ Goto(p, "in_rb_restore")
    /\ UNCHANGED <<lockvars, valvars, now, hist, op, loc>>

\* shutil.move(str(backup_dir), str(claude_dir)), then raise
\* InitializationError. The move goes into the directory the path names when
\* it names one, and fails on a dangling link.
InRbRestore(p) ==
    /\ pc[p] = "in_rb_restore"
    /\ LET i == loc[p].bdir
           b == Get(fs.home, BackupBase(i))
           n == fs.claude
           gone == Put(fs.home, BackupBase(i), None)
       IN  CASE b.k = "none" -> InRaise(p, "FileNotFoundError") /\ UNCHANGED fs
             [] b.k # "none" /\ n.k = "none" ->
                  /\ fs' = [fs EXCEPT !.claude = b, !.home = gone]
                  /\ InRaise(p, "InitializationFailed")
             [] b.k # "none" /\ n.k = "dir" ->
                  IF BackupBase(i) \in DOMAIN n.sub
                    THEN InRaise(p, "shutil.Error") /\ UNCHANGED fs
                    ELSE /\ fs' = [fs EXCEPT !.home = gone,
                                     !.claude.sub = Put(n.sub, BackupBase(i), b)]
                         /\ InRaise(p, "InitializationFailed")
             [] b.k # "none" /\ n.k = "link" ->
                  IF environment_exists(n.t) /\ fs.envs[n.t].k = "dir"
                       /\ BackupBase(i) \notin DOMAIN fs.envs[n.t].sub
                    THEN /\ fs' = [fs EXCEPT !.home = gone,
                                     !.envs[n.t].sub = Put(fs.envs[n.t].sub, BackupBase(i), b)]
                         /\ InRaise(p, "InitializationFailed")
                    ELSE InRaise(p, IF environment_exists(n.t) THEN "shutil.Error"
                                    ELSE "FileExistsError") /\ UNCHANGED fs
    /\ UNCHANGED <<lockvars, valvars, now, hist, op>>

\* An init whose finally clause keeps the lock.
InUnlockKept(p) ==
    /\ pc[p] = "in_unlock"
    /\ Goto(p, "in_unlink")
    /\ UNCHANGED <<fs, lockvars, valvars, now, hist, op, loc>>

\* finally: fcntl.flock(fd, LOCK_UN); lock_file.close()
InUnlock(p) ==
    /\ pc[p] = "in_unlock"
    /\ lockHeld' = [i \in DOMAIN lockHeld |-> IF lockHeld[i] = p THEN 0 ELSE lockHeld[i]]
    /\ loc' = [loc EXCEPT ![p].fd = 0, ![p].locked = FALSE]
    /\ Goto(p, "in_unlink")
    /\ UNCHANGED <<fs, lockPath, switchLock, valvars, now, hist, op>>

\* finally: lock_file_path.unlink(missing_ok=True), by winners and losers
\* alike; then the call returns, or the error in flight leaves it.
InUnlink(p) ==
    /\ pc[p] = "in_unlink"
    /\ lockPath' = 0
    /\ Return(p, IF loc[p].err = "" THEN "ok" ELSE loc[p].err)
    /\ hist' = [hist EXCEPT !.inited = hist.inited \/ loc[p].err = ""]
    /\ UNCHANGED <<fs, lockHeld, switchLock, valvars, now, op, loc>>

\* The caller's process dies where it stands: its locks go with it, the
\* filesystem stays as it is.
Crash(p) ==
    /\ pc[p] # "idle"
    /\ Return(p, "crashed")
    /\ switchLock' = IF switchLock = p THEN 0 ELSE switchLock
    /\ lockHeld' = [i \in DOMAIN lockHeld |-> IF lockHeld[i] = p THEN 0 ELSE lockHeld[i]]
    /\ loc' = [loc EXCEPT ![p].fd = 0, ![p].locked = FALSE]
    /\ UNCHANGED <<fs, lockPath, valvars, now, hist, op>>

\* ------------------------------------------------------------- paths
DOT_CLAUDE_TMP == DOT_CLAUDE \o <<".", "t", "m", "p">>
DOT_CLAUDE_ENVS == DOT_CLAUDE \o <<"-", "e", "n", "v", "s">>
DOT_DOT == <<".", ".">>

\* get_envs_dir() and get_trash_dir(), as components below the home directory.
ENVS_AT == <<DOT_CLAUDE_ENVS>>
TRASH_AT == <<DOT_CLAUDE_ENVS, DOT_TRASH>>

\* The home directory of the filesystem f as one tree.
Tree(f) ==
    LET trash == [Dir({}) EXCEPT !.sub = f.trash]
        envs == [Dir({}) EXCEPT !.sub =
                   IF f.trashDir THEN Put(f.envs, DOT_TRASH, trash) ELSE f.envs]
        h1 == Put(f.home, DOT_CLAUDE, f.claude)
        h2 == Put(h1, DOT_CLAUDE_TMP, f.tmp)
        h3 == IF f.envsDir THEN Put(h2, DOT_CLAUDE_ENVS, envs) ELSE h2
    IN  [Dir({}) EXCEPT !.sub = h3]

\* The filesystem record of the tree t.
FromTree(t) ==
    LET envs == Get(t.sub, DOT_CLAUDE_ENVS)
        trash == Get(envs.sub, DOT_TRASH)
    IN  [claude |-> Get(t.sub, DOT_CLAUDE),
         tmp |-> Get(t.sub, DOT_CLAUDE_TMP),
         envsDir |-> envs.k = "dir",
         envs |-> [n \in DOMAIN envs.sub \ {DOT_TRASH} |-> envs.sub[n]],
         trashDir |-> trash.k = "dir",
         trash |-> trash.sub,
         home |-> [n \in DOMAIN t.sub \ {DOT_CLAUDE, DOT_CLAUDE_TMP, DOT_CLAUDE_ENVS}
                     |-> t.sub[n]]]

\* The node the components at lead to in the tree t.
RECURSIVE NodeAt(_, _)
NodeAt(t, at) ==
    IF at = <<>> THEN t ELSE NodeAt(Get(t.sub, Head(at)), Tail(at))

\* The tree t with the node v at the components at (None removes the entry).
RECURSIVE PutAt(_, _, _)
PutAt(t, at, v) ==
    IF Len(at) = 1
      THEN [t EXCEPT !.sub = Put(t.sub, at[1], v)]
      ELSE [t EXCEPT !.sub = Put(t.sub, at[1],
                                 PutAt(Get(t.sub, at[1]), Tail(at), v))]

\* str.split("/")
RECURSIVE SplitPath(_)
SplitPath(s) ==
    LET S == {i \in 1 .. Len(s) : s[i] = "/"}
    IN  IF S = {} THEN <<s>>
        ELSE LET i == CHOOSE x \in S : \A y \in S : x <= y
             IN  <<SubSeq(s, 1, i - 1)>> \o SplitPath(SubSeq(s, i + 1, Len(s)))

\* What the kernel makes of the components comps below the directory at: ""
\* and "." stay, ".." goes to the parent, a name goes down; every directory
\* on the way has to exist. ok is FALSE when the walk fails or leaves the
\* home directory.
RECURSIVE Walk(_, _, _)
Walk(t, at, comps) ==
    IF comps = <<>> THEN [ok |-> TRUE, at |-> at]
    ELSE IF NodeAt(t, at).k # "dir" THEN [ok |-> FALSE, at |-> at]
    ELSE LET c == Head(comps)
         IN  IF c = <<>> \/ c = <<".">> THEN Walk(t, at, Tail(comps))
             ELSE IF c = DOT_DOT
               THEN IF at = <<>> THEN [ok |-> FALSE, at |-> at]
                    ELSE Walk(t, SubSeq(at, 1, Len(at) - 1), Tail(comps))
               ELSE Walk(t, Append(at, c), Tail(comps))

\* base / s for pathlib: an absolute s replaces base, and leaves the home.
Resolve(base, s) ==
    IF Len(s) > 0 /\ s[1] = "/" THEN [ok |-> FALSE, at |-> <<>>]
    ELSE Walk(Tree(fs), base, SplitPath(s))

\* Path.exists() of base / s.
PathExists(base, s) ==
    LET r == Resolve(base, s)
    IN  r.ok /\ NodeExists(NodeAt(Tree(fs), r.at))

\* shutil.move(src, dst) for the resolved paths src and dst: a rename of the
\* node at src (a link moves as a link); into dst/basename(src) when dst is a
\* directory.
ShutilMove(src, dst) ==
    LET t == Tree(fs)
        n == NodeAt(t, src.at)
        d == NodeAt(t, dst.at)
        real == IF d.k = "dir" THEN Append(dst.at, src.at[Len(src.at)]) ELSE dst.at
        moved == FromTree(PutAt(PutAt(t, src.at, None), real, n))
    IN  IF ~src.ok \/ ~dst.ok \/ src.at = <<>> \/ n.k = "none"
          THEN [err |-> "FileNotFoundError", fs |-> fs]
        ELSE IF Len(src.at) <= Len(dst.at)
                  /\ SubSeq(dst.at, 1, Len(src.at)) = src.at
          THEN [err |-> "shutil.Error", fs |-> fs]
        ELSE IF d.k = "dir" /\ NodeAt(t, real).k # "none"
          THEN [err |-> "shutil.Error", fs |-> fs]
        ELSE IF d.k = "link" /\ n.k = "dir"
          THEN [err |-> "FileExistsError", fs |-> fs]
        ELSE [err |-> "", fs |-> moved]

\* ------------------------------------------------------------- current
\* os.path.realpath of the components comps below the directory at, not
\* strict: "" and "." stay, ".." drops the last component, a name that is a
\* symbolic link continues at the link's target (an environment path), any
\* other name goes down whether it exists or not. ok is FALSE when the path
\* leaves the home directory or more than k links are followed.
RECURSIVE RealPath(_, _, _, _)
RealPath(t, at, comps, k) ==
    IF comps = <<>> THEN [ok |-> TRUE, at |-> at]
    ELSE LET c == Head(comps)
             n == NodeAt(t, Append(at, c))
         IN  IF c = <<>> \/ c = <<".">> THEN RealPath(t, at, Tail(comps), k)
             ELSE IF c = DOT_DOT
               THEN IF at = <<>> THEN [ok |-> FALSE, at |-> at]
                    ELSE RealPath(t, SubSeq(at, 1, Len(at) - 1), Tail(comps), k)
             ELSE IF n.k = "link"
               THEN IF k = 0 \/ (Len(n.t) > 0 /\ n.t[1] = "/")
                      THEN [ok |-> FALSE, at |-> at]
                      ELSE RealPath(t, ENVS_AT, SplitPath(n.t) \o Tail(comps), k - 1)
             ELSE RealPath(t, Append(at, c), Tail(comps), k)

\* claude_dir.resolve(): where ~/.claude leads.
ResolvedClaude == RealPath(Tree(fs), <<>>, <<DOT_CLAUDE>>, MaxHops)

CallCurrent(p, alone) ==
    /\ Call(p, OpRec("current", <<>>, <<>>, FALSE), "cur_symlink", FALSE, alone)
    /\ UNCHANGED <<fs, lockvars, valvars, now>>

\* if not claude_dir.is_symlink(): return None (the empty list here).
CurIsSymlink(p) ==
    /\ pc[p] = "cur_symlink"
    /\ IF fs.claude.k = "link"
         THEN Goto(p, "cur_resolve") /\ UNCHANGED loc
         ELSE Return(p, "ok") /\ SetLoc(p, "out", <<>>)
    /\ UNCHANGED <<fs, lockvars, valvars, now, hist, op>>

\* A current() that answers with the link's own target, unresolved.
CurResolveLexical(p) ==
    /\ pc[p] = "cur_resolve"
    /\ SetLoc(p, "out", <<fs.claude.t>>)
    /\ Return(p, "ok")
    /\ UNCHANGED <<fs, lockvars, valvars, now, hist, op>>

\* target = claude_dir.resolve(); if target.parent == envs_dir: return
\* target.name; return None.
CurResolve(p) ==
    /\ pc[p] = "cur_resolve"
    /\ LET r == ResolvedClaude
       IN  SetLoc(p, "out", IF r.ok /\ Len(r.at) = 2 /\ r.at[1] = DOT_CLAUDE_ENVS
                              THEN <<r.at[2]>> ELSE <<>>)
    /\ Return(p, "ok")
    /\ UNCHANGED <<fs, lockvars, valvars, now, hist, op>>

\* ------------------------------------------------------------- restore
\* str.rsplit("-", 2)
rsplit2(s) ==
    LET H == {i \in 1 .. Len(s) : s[i] = "-"}
        j == CHOOSE x \in H : \A y \in H : y <= x
        H2 == H \ {j}
        i == CHOOSE x \in H2 : \A y \in H2 : y <= x
    IN  IF H = {} THEN <<s>>
        ELSE IF H2 = {}
          THEN <<SubSeq(s, 1, j - 1), SubSeq(s, j + 1, Len(s))>>
          ELSE <<SubSeq(s, 1, i - 1), SubSeq(s, i + 1, j - 1),
                 SubSeq(s, j + 1, Len(s))>>

CallRestore(p, names, alone) ==
    \E name \in names :
        /\ Call(p, OpRec("restore", name, <<>>, FALSE), "rs_exists", FALSE, alone)
        /\ UNCHANGED <<fs, lockvars, valvars, now>>

\* if not backup_path.exists(): raise EnvironmentNotFoundError.
RsExists(p) ==
    /\ pc[p] = "rs_exists"
    /\ IF PathExists(TRASH_AT, op[p].name)
         THEN Goto(p, "rs_parse")
         ELSE Return(p, "NotFound")
    /\ UNCHANGED <<fs, lockvars, valvars, now, hist, op, loc>>

\* parts = backup_name.rsplit("-", 2); three parts or InvalidBackupFormatError;
\* if target_path.exists(): raise EnvironmentExistsError.
RsParse(p) ==
    /\ pc[p] = "rs_parse"
    /\ LET parts == rsplit2(op[p].name)
       IN  IF Len(parts) # 3 THEN Return(p, "InvalidBackupFormat")
           ELSE IF PathExists(ENVS_AT, parts[1]) THEN Return(p, "AlreadyExists")
           ELSE Goto(p, "rs_move")
    /\ UNCHANGED <<fs, lockvars, valvars, now, hist, op, loc>>

\* shutil.move(str(backup_path), str(target_path)); return name.
RsMove(p) ==
    /\ pc[p] = "rs_move"
    /\ LET m == ShutilMove(Resolve(TRASH_AT, op[p].name),
                           Resolve(ENVS_AT, rsplit2(op[p].name)[1]))
       IN  /\ fs' = m.fs
           /\ Return(p, IF m.err = "" THEN "ok" ELSE m.err)
    /\ UNCHANGED <<lockvars, valvars, now, hist, op, loc>>

\* ------------------------------------------------------------- list_trash
\* The code point of a character of a timestamp: str compares by these.
CodePoint(c) ==
    IF c = "-" THEN 45 ELSE 48 + (CHOOSE t \in 0 .. 9 : DigitOf(t) = c)

\* a < b for str: the first difference decides, a proper prefix is less.
StrLess(a, b) ==
    \E i \in 1 .. Len(b) :
        /\ \A k \in 1 .. i - 1 : k <= Len(a) /\ a[k] = b[k]
        /\ \/ i = Len(a) + 1
           \/ i <= Len(a) /\ CodePoint(a[i]) < CodePoint(b[i])

\* The dict list_trash makes of the entry e: parts = e.rsplit("-", 2).
TrashItem(e) ==
    LET parts == rsplit2(e)
    IN  [name |-> parts[1], backup_name |-> e,
         timestamp |-> parts[2] \o <<"-">> \o parts[3]]

\* The entries list_trash keeps: directories whose name has three parts.
TrashListed ==
    {e \in DOMAIN fs.trash : fs.trash[e].k = "dir" /\ Len(rsplit2(e)) = 3}

\* The sequences that list each element of S once.
Orders(S) ==
    {f \in [1 .. Cardinality(S) -> S] : \A i, j \in DOMAIN f : f[i] = f[j] => i = j}

\* sorted(backups, key=timestamp, reverse=True) for backups in the order
\* order: a stable sort, equal timestamps keep the order they came in.
SortedNewestFirst(order) ==
    CHOOSE f \in Orders({order[i] : i \in DOMAIN order}) :
        \A i, j \in DOMAIN f :
            i < j =>
              /\ ~StrLess(TrashItem(f[i]).timestamp, TrashItem(f[j]).timestamp)
              /\ TrashItem(f[i]).timestamp = TrashItem(f[j]).timestamp =>
                   \E a, b \in DOMAIN order :
                       a < b /\ order[a] = f[i] /\ order[b] = f[j]

CallListTrash(p, alone) ==
    /\ Call(p, OpRec("list_trash", <<>>, <<>>, FALSE), "lt_list", FALSE, alone)
    /\ UNCHANGED <<fs, lockvars, valvars, now>>

\* list_trash: [] without a trash directory; else the entries in the order
\* iterdir yields them, which is any order, sorted.
LtList(p) ==
    /\ pc[p] = "lt_list"
    /\ IF ~fs.trashDir
         THEN SetLoc(p, "out", <<>>)
         ELSE \E order \in Orders(TrashListed) :
                SetLoc(p, "out", [i \in DOMAIN SortedNewestFirst(order) |->
                                    TrashItem(SortedNewestFirst(order)[i])])
    /\ Return(p, "ok")
    /\ UNCHANGED <<fs, lockvars, valvars, now, hist, op>>

\* ------------------------------------------------------------- clone
HTTPS == <<"h", "t", "t", "p", "s", ":", "/", "/">>
GIT_AT == <<"g", "i", "t", "@">>
GITHUB_COM == <<"g", "i", "t", "h", "u", "b", ".", "c", "o", "m">>
DOT_GIT == <<".", "g", "i", "t">>
DOT_TMP == <<".", "t", "m", "p", "_">>

\* \w of a str pattern: letters (of any script), digits and the underscore.
WordClass == Lower \cup Upper \cup Digit \cup {"_", "é"}

\* str.startswith
StartsWith(s, pre) == Len(s) >= Len(pre) /\ SubSeq(s, 1, Len(pre)) = pre

\* [\w-]+/[\w.-]+ up to the "$", which also matches before one final
\* newline; git says whether the pattern goes on with a mandatory \.git.
OwnerRepoMatch(rest, git) ==
    LET n == Len(rest)
        ends == IF n > 0 /\ rest[n] = "\n" THEN {n - 1, n} ELSE {n}
    IN  \E e \in ends, i \in 2 .. n :
          /\ i < e
          /\ rest[i] = "/"
          /\ \A k \in 1 .. i - 1 : rest[k] \in WordClass \cup {"-"}
          /\ \A k \in i + 1 .. e : rest[k] \in WordClass \cup {".", "-"}
          /\ git => /\ e - i > Len(DOT_GIT)
                    /\ SubSeq(rest, e - Len(DOT_GIT) + 1, e) = DOT_GIT

\* is_valid_github_url: re.match of either pattern.
is_valid_github_url(url) ==
    \/ /\ StartsWith(url, HTTPS \o GITHUB_COM \o <<"/">>)
       /\ OwnerRepoMatch(SubSeq(url, Len(HTTPS) + Len(GITHUB_COM) + 2, Len(url)),
                         FALSE)
    \/ /\ StartsWith(url, GIT_AT \o GITHUB_COM \o <<":">>)
       /\ OwnerRepoMatch(SubSeq(url, Len(GIT_AT) + Len(GITHUB_COM) + 2, Len(url)),
                         TRUE)

\* The sources handed to create besides environment names.
URL_OK == HTTPS \o GITHUB_COM \o <<"/", "o", "/", "r">>
URL_BAD == HTTPS \o <<"e", ".", "g", "/", "o", "/", "r">>

\* What git clone leaves in its destination: the work tree and .git.
RepoFiles == {"CLAUDE.md"}
Repo == [Dir(RepoFiles) EXCEPT !.sub = Put(Empty, DOT_GIT, Dir({}))]

\* temp_dir = target.parent / f".tmp_{target.name}"
TempName(name) == DOT_TMP \o name

\* raise inside clone_from_github's try: an except clause runs.
ClFail(p) == Goto(p, "cl_except") /\ UNCHANGED loc

\* subprocess.run(["git", "clone", ...], timeout=...): the clone succeeds,
\* exits non-zero for a reason of its own, or is killed at the timeout with
\* the destination partly written (flag records either); it exits non-zero
\* when the destination exists and is not empty.
ClClone(p) ==
    /\ pc[p] = "cl_clone"
    /\ LET tmp == TempName(op[p].name)
           free == fs.envsDir /\ Get(fs.envs, tmp).k = "none"
       IN  IF free
             THEN \/ /\ fs' = [fs EXCEPT !.envs = Put(fs.envs, tmp, Repo)]
                     /\ Goto(p, "cl_rmgit")
                     /\ UNCHANGED loc
                  \/ /\ fs' = [fs EXCEPT !.envs =
                                 Put(fs.envs, tmp, [Repo EXCEPT !.c = {}])]
                     /\ SetLoc(p, "flag", TRUE)
                     /\ Goto(p, "cl_except")
                  \/ /\ SetLoc(p, "flag", TRUE)
                     /\ Goto(p, "cl_except")
                     /\ UNCHANGED fs
             ELSE ClFail(p) /\ UNCHANGED fs
    /\ UNCHANGED <<lockvars, valvars, now, hist, op>>

\* A clone that leaves .git where git put it.
ClRmGitSkipped(p) ==
    /\ pc[p] = "cl_rmgit"
    /\ Goto(p, "cl_rmtarget")
    /\ UNCHANGED <<fs, lockvars, valvars, now, hist, op, loc>>

\* if git_dir.exists(): shutil.rmtree(git_dir)
ClRmGit(p) ==
    /\ pc[p] = "cl_rmgit"
    /\ LET tmp == TempName(op[p].name)
           n == Get(fs.envs, tmp)
       IN  fs' = IF n.k = "dir" /\ DOT_GIT \in DOMAIN n.sub
                   THEN [fs EXCEPT !.envs =
                           Put(fs.envs, tmp, [n EXCEPT !.sub = Put(n.sub, DOT_GIT, None)])]
                   ELSE fs
    /\ Goto(p, "cl_rmtarget")
    /\ UNCHANGED <<lockvars, valvars, now, hist, op, loc>>

\* if target.exists(): shutil.rmtree(target)
ClRmTarget(p) ==
    /\ pc[p] = "cl_rmtarget"
    /\ fs' = IF environment_exists(op[p].name)
               THEN [fs EXCEPT !.envs = Put(fs.envs, op[p].name, None)]
               ELSE fs
    /\ Goto(p, "cl_move")
    /\ UNCHANGED <<lockvars, valvars, now, hist, op, loc>>

\* if temp_dir.exists(): shutil.move(str(temp_dir), str(target))
ClMove(p) ==
    /\ pc[p] = "cl_move"
    /\ LET tmp == TempName(op[p].name)
           m == ShutilMove([ok |-> TRUE, at |-> Append(ENVS_AT, tmp)],
                           [ok |-> TRUE, at |-> Append(ENVS_AT, op[p].name)])
       IN  IF Get(fs.envs, tmp).k = "none"
             THEN Return(p, "ok") /\ UNCHANGED fs
             ELSE IF m.err = ""
               THEN Return(p, "ok") /\ fs' = m.fs
               ELSE Goto(p, "cl_except") /\ UNCHANGED fs
    /\ UNCHANGED <<lockvars, valvars, now, hist, op, loc>>

\* A step of the clone after git has run (the removal of .git, of the target,
\* the move) raises an OSError and has done nothing; flag records it.
ClFault(p) ==
    /\ pc[p] \in {"cl_rmgit", "cl_rmtarget", "cl_move"}
    /\ SetLoc(p, "flag", TRUE)
    /\ Goto(p, "cl_except")
    /\ UNCHANGED <<fs, lockvars, valvars, now, hist, op>>

\* A clone that leaves its temporary directory behind when it fails.
ClExceptKept(p) ==
    /\ pc[p] = "cl_except"
    /\ Return(p, "GitOperationFailed")
    /\ UNCHANGED <<fs, lockvars, valvars, now, hist, op, loc>>

\* except: if temp_dir.exists(): shutil.rmtree(temp_dir); raise
\* GitOperationError.
ClExcept(p) ==
    /\ pc[p] = "cl_except"
    /\ fs' = [fs EXCEPT !.envs = Put(fs.envs, TempName(op[p].name), None)]
    /\ Return(p, "GitOperationFailed")
    /\ UNCHANGED <<lockvars, valvars, now, hist, op, loc>>

\* ------------------------------------------------------------- create
CallCreate(p, names, srcs, alone) ==
    \E name \in names, src \in srcs :
        /\ Call(p, OpRec("create", name, src, FALSE), "cr_validate",
                fs.envsDir /\ ~environment_exists(name), alone)
        /\ UNCHANGED <<fs, lockvars, valvars, now>>

\* A create that does not validate its name.
CrValidateSkipped(p) ==
    /\ pc[p] = "cr_validate"
    /\ Goto(p, "cr_init")
    /\ UNCHANGED <<fs, lockvars, valvars, now, hist, op, loc>>

\* validate_environment_name(name) with nothing looked at before.
CrValidate(p) ==
    /\ pc[p] = "cr_validate"
    /\ IF validate_environment_name(op[p].name) = "ok"
         THEN Goto(p, "cr_init")
         ELSE Return(p, "InvalidName")
    /\ UNCHANGED <<fs, lockvars, valvars, now, hist, op, loc>>

\* if not envs_dir.exists(): raise InitializationError.
CrInit(p) ==
    /\ pc[p] = "cr_init"
    /\ IF fs.envsDir THEN Goto(p, "cr_exists") ELSE Return(p, "NotInitialized")
    /\ UNCHANGED <<fs, lockvars, valvars, now, hist, op, loc>>

\* A create that does not look for its target.
CrExistsSkipped(p) ==
    /\ pc[p] = "cr_exists"
    /\ Goto(p, "cr_source")
    /\ UNCHANGED <<fs, lockvars, valvars, now, hist, op, loc>>

\* if target_env.exists(): raise EnvironmentExistsError.
CrExists(p) ==
    /\ pc[p] = "cr_exists"
    /\ IF PathExists(ENVS_AT, op[p].name)
         THEN Return(p, "AlreadyExists")
         ELSE Goto(p, "cr_source")
    /\ UNCHANGED <<fs, lockvars, valvars, now, hist, op, loc>>

\* A source that starts like a URL has to be a GitHub URL and is cloned; any
\* other is the name of an environment that has to exist.
CrSource(p) ==
    /\ pc[p] = "cr_source"
    /\ LET src == op[p].src
       IN  IF StartsWith(src, HTTPS) \/ StartsWith(src, GIT_AT)
             THEN IF is_valid_github_url(src)
                    THEN Goto(p, "cl_clone")
                    ELSE Return(p, "GitOperationFailed")
             ELSE IF PathExists(ENVS_AT, src)
                    THEN Goto(p, "cr_scandir")
                    ELSE Return(p, "SourceNotFound")
    /\ UNCHANGED <<fs, lockvars, valvars, now, hist, op, loc>>

\* A copytree that finds nothing to copy in the source.
CrScandirNothing(p) ==
    /\ pc[p] = "cr_scandir"
    /\ loc' = [loc EXCEPT ![p].ents = {}, ![p].flag = FALSE]
    /\ Goto(p, "cr_makedirs")
    /\ UNCHANGED <<fs, lockvars, valvars, now, hist, op>>

\* shutil.copytree(source_env, target_env, symlinks=True) starts by listing
\* the source: os.scandir(src).
CrScandir(p) ==
    /\ pc[p] = "cr_scandir"
    /\ LET r == Resolve(ENVS_AT, op[p].src)
           n == NodeAt(Tree(fs), r.at)
       IN  IF r.ok /\ n.k = "dir"
             THEN /\ loc' = [loc EXCEPT ![p].ents = n.c, ![p].flag = FALSE]
                  /\ Goto(p, "cr_makedirs")
             ELSE /\ Return(p, "FileNotFoundError")
                  /\ UNCHANGED loc
    /\ UNCHANGED <<fs, lockvars, valvars, now, hist, op>>

\* os.makedirs(dst): FileExistsError when the target is there by now.
CrMakedirs(p) ==
    /\ pc[p] = "cr_makedirs"
    /\ IF Get(fs.envs, op[p].name).k # "none"
         THEN Return(p, "FileExistsError") /\ UNCHANGED fs
         ELSE /\ fs' = [fs EXCEPT !.envsDir = TRUE,
                                  !.envs = Put(fs.envs, op[p].name, Dir({}))]
              /\ Goto(p, "cr_copy")
    /\ UNCHANGED <<lockvars, valvars, now, hist, op, loc>>

\* The entries listed are copied one by one, the subdirectories last; what
\* fails is collected and raised as shutil.Error at the end.
CrCopy(p) ==
    /\ pc[p] = "cr_copy"
    /\ LET r == Resolve(ENVS_AT, op[p].src)
           src == IF r.ok THEN NodeAt(Tree(fs), r.at) ELSE None
           dst == Get(fs.envs, op[p].name)
           both == src.k = "dir" /\ dst.k = "dir"
       IN  IF loc[p].ents # {}
             THEN \E f \in loc[p].ents :
                    /\ fs' = IF both /\ f \in src.c
                               THEN [fs EXCEPT !.envs = Put(fs.envs, op[p].name,
                                                [dst EXCEPT !.c = dst.c \cup {f}])]
                               ELSE fs
                    /\ loc' = [loc EXCEPT ![p].ents = loc[p].ents \ {f},
                                          ![p].flag = loc[p].flag \/ ~(both /\ f \in src.c)]
                    /\ UNCHANGED <<pc, res>>
             ELSE /\ fs' = IF both
                             THEN [fs EXCEPT !.envs = Put(fs.envs, op[p].name,
                                              [dst EXCEPT !.sub = src.sub])]
                             ELSE fs
                  /\ Return(p, IF loc[p].flag \/ ~both THEN "shutil.Error" ELSE "ok")
                  /\ UNCHANGED loc
    /\ UNCHANGED <<lockvars, valvars, now, hist, op>>

\* ------------------------------------------------------------- initial states

ProcInit ==
    /\ pc = [p \in Procs |-> "idle"]
    /\ op = [p \in Procs |-> NoOp]
    /\ loc = [p \in Procs |-> NoLoc]
    /\ res = [p \in Procs |-> "none"]

LockInit ==
    /\ lockPath = 0
    /\ lockHeld = [i \in Inodes |-> 0]
    /\ switchLock = 0

ValInit ==
    /\ vname = <<>>
    /\ vres = "pending"

\* A filesystem record with nothing under the home directory but ~/.claude.
HomeWith(node) ==
    [claude |-> node, tmp |-> None, envsDir |-> FALSE, envs |-> Empty,
     trashDir |-> FALSE, trash |-> Empty, home |-> Empty]

\* What init leaves for a home that held the configuration c.
InitializedFrom(c) ==
    [HomeWith(Link(DEFAULT)) EXCEPT !.envsDir = TRUE,
                                    !.envs = Put(Empty, DEFAULT, Dir(c))]

\* A home as init leaves it and create, switch and delete keep it: default
\* holds the original configuration, other environments are copies of it, the
\* link points at one of them. A temporary link may be left by a switch that
\* died before its replace (its target may have been deleted since).
InitializedHome ==
    /\ \E c \in SUBSET Files : hist = [orig |-> Dir(c), inited |-> TRUE, calls |-> 0, last |-> NoDelete]
    /\ \E others \in SUBSET (EnvNames \ {DEFAULT}) :
         \E n \in others \cup {DEFAULT} :
           \E t \in {None} \cup {Link(m) : m \in EnvNames} :
             fs = [InitializedFrom(orig.c) EXCEPT
                     !.envs = [m \in others \cup {DEFAULT} |-> Dir(orig.c)],
                     !.claude = Link(n),
                     !.tmp = t]
    /\ now = 1

\* ------------------------------------------------------------- switch alone
\* One switch at a time by caller 1, who may die at any step.
SwitchInit == InitializedHome /\ ProcInit /\ LockInit /\ ValInit

SwitchNext ==
    \/ CallSwitch(1, ArgNames, TRUE)
    \/ SwValidate(1)
    \/ SwExists(1)
    \/ SwRunning(1)
    \/ SwLock(1, TRUE)
    \/ SwState(1)
    \/ SwTmpChk(1)
    \/ SwTmpUnlink(1)
    \/ SwSymlink(1)
    \/ SwReplace(1)
    \/ SwExcept(1)
    \/ Crash(1)

SpecSwitch == SwitchInit /\ [][SwitchNext]_vars

\* C1: from the start of a switch whose link pointed at an existing
\* environment and whose target exists, through every step of it and after
\* its return or its death, the active link is a symbolic link to the old or
\* to the new environment, and that environment exists.
SwitchAtomic ==
    \A p \in Procs :
        (op[p].kind = "switch" /\ loc[p].pre) =>
            /\ fs.claude.k = "link"
            /\ fs.claude.t \in {loc[p].old.t, op[p].name}
            /\ environment_exists(fs.claude.t)

\* A switch has replaced the link of another environment by its target's.
SwitchAtomicWitness ==
    \E p \in Procs :
        /\ op[p].kind = "switch" /\ loc[p].pre /\ res[p] = "ok"
        /\ fs.claude = Link(op[p].name)
        /\ loc[p].old # fs.claude

\* ------------------------------------------------------------- the validator alone
\* validate_environment_name applied to every string over Alphabet up to
\* MaxNameLen characters, the reserved names and the model's names.
ValidateInputs == StringsUpTo(MaxNameLen) \cup RESERVED_NAMES \cup ArgNames

ValidateInit ==
    /\ vname \in ValidateInputs
    /\ vres = "pending"
    /\ fs = HomeWith(None)
    /\ hist = [orig |-> None, inited |-> FALSE, calls |-> 0, last |-> NoDelete]
    /\ now = 1
    /\ ProcInit /\ LockInit

Validate ==
    /\ vres = "pending"
    /\ vres' = validate_environment_name(vname)
    /\ UNCHANGED <<fs, lockvars, procvars, vname, now, hist>>

SpecValidate == ValidateInit /\ [][Validate]_vars

\* The environment name grammar: non-empty, not reserved, every character in
\* [A-Za-z0-9_-].
GrammarValid(s) ==
    /\ s # <<>>
    /\ s \notin RESERVED_NAMES
    /\ \A i \in 1 .. Len(s) : s[i] \in Lower \cup Upper \cup Digit \cup {"_", "-"}

\* C8: validate(name) succeeds if and only if name is non-empty, not reserved
\* and made of characters in [A-Za-z0-9_-] only; a string holding a path
\* separator, whitespace (a trailing newline included), a shell metacharacter
\* or a non-ASCII character fails with InvalidName.
ValidatorMatchesGrammar ==
    vres # "pending" => (vres = "ok" <=> GrammarValid(vname))

\* What the validator does decide: the grammar, but for one newline allowed
\* after the last character.
ValidatorUpToTrailingNewline ==
    vres # "pending" =>
        (vres = "ok" <=>
            \/ GrammarValid(vname)
            \/ /\ Len(vname) >= 2
               /\ vname[Len(vname)] = "\n"
               /\ GrammarValid(SubSeq(vname, 1, Len(vname) - 1)))

\* ------------------------------------------------------------- switch and delete together
\* Two processes, one call each: a switch and a delete whose steps interleave
\* in every order. Separate processes do not share _switch_lock.
TwoProcs == {1, 2}
FirstCall(p) == res[p] = "none"

SwitchDeleteNext ==
    \E p \in TwoProcs :
        \/ FirstCall(p) /\ CallSwitch(p, EnvNames, FALSE)
        \/ SwValidate(p)
        \/ SwExists(p)
        \/ SwRunning(p)
        \/ SwLock(p, FALSE)
        \/ SwState(p)
        \/ SwTmpChk(p)
        \/ SwTmpUnlink(p)
        \/ SwSymlink(p)
        \/ SwReplace(p)
        \/ SwExcept(p)
        \/ FirstCall(p) /\ CallDelete(p, EnvNames, FALSE)
        \/ DelValidate(p)
        \/ DelExists(p)
        \/ DelCurrent(p)
        \/ DelMkTrash(p)
        \/ DelMove(p)

SpecSwitchDelete == SwitchInit /\ [][SwitchDeleteNext]_vars

\* C3: when a switch and a delete run concurrently in different processes,
\* the active link never points at an environment directory that no longer
\* exists.
LinkNeverDangles ==
    fs.claude.k = "link" => environment_exists(fs.claude.t)

\* ------------------------------------------------------------- init, concurrently
\* A home nobody initialized: ~/.claude is absent or the configuration
\* directory, with any of the files.
FreshHome ==
    /\ \E n \in {None} \cup {Dir(c) : c \in SUBSET Files} :
         hist = [orig |-> n, inited |-> FALSE, calls |-> 0, last |-> NoDelete]
    /\ fs = HomeWith(orig)
    /\ now = 1

InitRaceInit == FreshHome /\ ProcInit /\ LockInit /\ ValInit

InitSteps(p) ==
    \/ InOpen(p)
    \/ InFlock(p)
    \/ InChkLink(p)
    \/ InChkEnvs(p)
    \/ InBackup(p)
    \/ InBackupCopy(p)
    \/ InMkdir(p)
    \/ InMoveChk(p)
    \/ InMove(p)
    \/ InMkDefault(p)
    \/ InSymlink(p)
    \/ InRmBackup(p)
    \/ InUnlock(p)
    \/ InUnlink(p)

InitRollback(p) ==
    \/ InExcept(p)
    \/ InRbClaude(p)
    \/ InRbDefault(p)
    \/ InRbEnvs(p)
    \/ InRbRestore(p)

\* Every caller calls init once; their steps interleave in every order.
InitRaceNext ==
    \E p \in Procs :
        \/ FirstCall(p) /\ CallInit(p, FALSE)
        \/ InitSteps(p)
        \/ InitRollback(p)

SpecInitRace == InitRaceInit /\ [][InitRaceNext]_vars

\* C4: at most one caller is between acquiring and releasing the init lock,
\* and a caller that finds the lock held fails at once with InitInProgress.
InitMutualExclusion ==
    /\ \A p, q \in Procs : (loc[p].locked /\ loc[q].locked) => p = q
    /\ \A p \in Procs :
         (op[p].kind = "init" /\ pc[p] \in {"in_unlock", "in_unlink"}
             /\ loc[p].err = "InitInProgress") => ~loc[p].locked

\* C5: when N callers call init concurrently on an uninitialized home that
\* holds a configuration directory and all have returned, exactly one call
\* succeeded and every other failed with InitializationError.
InitErrors == {"InitInProgress", "LinkAlreadyExists", "AlreadyInitialized",
               "InitializationFailed"}
AllReturned == \A p \in Procs : op[p].kind = "init" /\ pc[p] = "idle"
ExactlyOneInitSucceeds ==
    (AllReturned /\ orig.k = "dir") =>
        /\ Cardinality({p \in Procs : res[p] = "ok"}) = 1
        /\ \A p \in Procs : res[p] = "ok" \/ res[p] \in InitErrors

\* ------------------------------------------------------------- one call at a time
\* A home nobody initialized, or one whose ~/.claude is a symbolic link made
\* by hand.
SeqInit ==
    /\ \/ FreshHome
       \/ /\ hist = [orig |-> Link(ENV_A), inited |-> FALSE, calls |-> 0, last |-> NoDelete]
          /\ fs = HomeWith(orig)
          /\ now = 1
    /\ ProcInit /\ LockInit /\ ValInit

\* The backup names restore is called with: those delete makes, and strings
\* with path separators.
RestoreArgs ==
    {BackupName(ENV_X, t) : t \in Times}
        \cup {<<>>, ENV_X, DOT_DOT \o <<"/">> \o ENV_X,
              DOT_DOT \o <<"/">> \o ENV_X \o <<"/">> \o DOT_DOT \o <<"/">>
                  \o DOT_DOT \o <<"/">> \o DOT_CLAUDE}

\* The names and the sources the calls are made with.
SeqNames == {DEFAULT, ENV_X} \cup BadNames
SeqSources == {DEFAULT, ENV_X, URL_OK, URL_BAD}

\* Caller 1 makes the calls, each completing before the next; no call dies
\* and nothing else touches the home directory.
Next ==
    \/ CallInit(1, TRUE)
    \/ InitSteps(1)
    \/ CallCreate(1, SeqNames, SeqSources, TRUE)
    \/ CrValidate(1)
    \/ CrInit(1)
    \/ CrExists(1)
    \/ CrSource(1)
    \/ CrScandir(1)
    \/ CrMakedirs(1)
    \/ CrCopy(1)
    \/ ClClone(1)
    \/ ClRmGit(1)
    \/ ClRmTarget(1)
    \/ ClMove(1)
    \/ ClExcept(1)
    \/ CallSwitch(1, SeqNames, TRUE)
    \/ SwValidate(1)
    \/ SwExists(1)
    \/ SwRunning(1)
    \/ SwLock(1, TRUE)
    \/ SwState(1)
    \/ SwTmpChk(1)
    \/ SwSymlink(1)
    \/ SwReplace(1)
    \/ CallDelete(1, SeqNames, TRUE)
    \/ DelValidate(1)
    \/ DelExists(1)
    \/ DelCurrent(1)
    \/ DelMkTrash(1)
    \/ DelMove(1)
    \/ CallRestore(1, RestoreArgs, TRUE)
    \/ RsExists(1)
    \/ RsParse(1)
    \/ RsMove(1)
    \/ Tick

Spec == SeqInit /\ [][Next]_vars

\* C2: in every state reached after a successful init by completed create,
\* switch, delete and restore calls, the active link is absent, or it is a
\* symbolic link to an existing environment directory that is a direct child
\* of the environments root.
ActiveLinkInvariant ==
    (hist.inited /\ Idle) =>
        \/ fs.claude.k = "none"
        \/ /\ fs.claude.k = "link"
           /\ Len(SplitPath(fs.claude.t)) = 1
           /\ fs.envsDir
           /\ Get(fs.envs, fs.claude.t).k = "dir"

\* A create, switch or delete whose name the validator rejects.
Rejected(p) ==
    /\ op[p].kind \in {"create", "switch", "delete"}
    /\ validate_environment_name(op[p].name) # "ok"

\* C7: a create, switch or delete called with a name that fails validation
\* takes one step, the return with InvalidName, and the filesystem (the
\* environments root, the environments, the trash, the active link) is the
\* same after every step of the call.
ValidationFirst ==
    [][\A p \in Procs :
         (Rejected(p) /\ pc[p] # "idle") =>
            /\ fs' = fs
            /\ \/ pc'[p] = pc[p]
               \/ pc'[p] = "idle" /\ res'[p] = "InvalidName"]_vars

\* A create with a path for a name was refused on an initialized home.
ValidationFirstWitness ==
    \E p \in Procs :
        /\ op[p] = OpRec("create", <<".", ".", "/", "a">>, DEFAULT, FALSE)
        /\ pc[p] = "idle"
        /\ res[p] = "InvalidName"
        /\ hist.inited

\* C9: when an init called alone has returned success, the active link is a
\* symbolic link to "default", current() is "default", list() is exactly
\* ["default"], default holds what ~/.claude held before (nothing when there
\* was none), and no backup directory is left.
InitPostcondition ==
    \A p \in Procs :
        (op[p].kind = "init" /\ pc[p] = "idle" /\ res[p] = "ok") =>
            /\ fs.claude = Link(DEFAULT)
            /\ get_current_environment = DEFAULT
            /\ list_environments = {DEFAULT}
            /\ Get(fs.envs, DEFAULT) = IF orig.k = "dir" THEN orig ELSE Dir({})
            /\ \A i \in BackupIds : BackupBase(i) \notin DOMAIN fs.home

\* An init has succeeded on a home whose ~/.claude held both files.
InitPostconditionWitness ==
    \E p \in Procs :
        /\ op[p].kind = "init" /\ pc[p] = "idle" /\ res[p] = "ok"
        /\ orig = Dir(Files)
        /\ Get(fs.envs, DEFAULT) = Dir(Files)

\* C10: an init called when the environments root exists or ~/.claude is a
\* symbolic link changes neither the root, nor an environment, nor the link
\* at any of its steps, and returns AlreadyInitialized or LinkAlreadyExists.
InitNotRepeatable ==
    [][\A p \in Procs :
         (op[p].kind = "init" /\ loc[p].pre /\ pc[p] # "idle") =>
            /\ fs'.envsDir = fs.envsDir
            /\ fs'.envs = fs.envs
            /\ fs'.claude = fs.claude
            /\ pc'[p] = "idle" =>
                 res'[p] \in {"AlreadyInitialized", "LinkAlreadyExists"}]_vars

\* A second init has failed on a home that held two environments.
InitNotRepeatableWitness ==
    \E p \in Procs :
        /\ op[p].kind = "init" /\ loc[p].pre /\ pc[p] = "idle"
        /\ res[p] = "LinkAlreadyExists"
        /\ hist.inited
        /\ list_environments = {DEFAULT, ENV_X}

\* ------------------------------------------------------------- create, concurrently
\* An initialized home holding default alone.
CreateRaceInit ==
    /\ \E c \in SUBSET Files :
         /\ hist = [orig |-> Dir(c), inited |-> TRUE, calls |-> 0, last |-> NoDelete]
         /\ fs = InitializedFrom(c)
    /\ now = 1
    /\ ProcInit /\ LockInit /\ ValInit

\* Every caller calls create once for the same name, from default or from a
\* repository; their steps interleave in every order.
CreateRaceNext ==
    \E p \in Procs :
        \/ FirstCall(p) /\ CallCreate(p, {ENV_A}, {DEFAULT, URL_OK}, FALSE)
        \/ CrValidate(p)
        \/ CrInit(p)
        \/ CrExists(p)
        \/ CrSource(p)
        \/ CrScandir(p)
        \/ CrMakedirs(p)
        \/ CrCopy(p)
        \/ ClClone(p)
        \/ ClRmGit(p)
        \/ ClRmTarget(p)
        \/ ClMove(p)
        \/ ClExcept(p)

SpecCreateRace == CreateRaceInit /\ [][CreateRaceNext]_vars

\* C6: when N callers create the same name concurrently and all have
\* returned (no clone having failed for a reason of its own), exactly one
\* call succeeded and every other failed with AlreadyExists.
AllCreated == \A p \in Procs : op[p].kind = "create" /\ pc[p] = "idle"
ExactlyOneCreateSucceeds ==
    (AllCreated /\ \A p \in Procs : ~loc[p].flag) =>
        /\ Cardinality({p \in Procs : res[p] = "ok"}) = 1
        /\ \A p \in Procs : res[p] \in {"ok", "AlreadyExists"}

\* ------------------------------------------------------------- init with failing steps
\* Init called alone on a home nobody initialized; any step of its mutation
\* sequence may fail.
InitFaultInit == FreshHome /\ ProcInit /\ LockInit /\ ValInit

InitFaultNext ==
    \/ CallInit(1, TRUE)
    \/ InitSteps(1)
    \/ InFault(1)
    \/ InitRollback(1)

SpecInitFault == InitFaultInit /\ [][InitFaultNext]_vars

\* C11: when a step of init's mutation sequence has failed and init has
\* returned, it raised InitializationError, no environments root and no
\* default remain, and ~/.claude is what it was before: the original
\* directory with its contents, or absent.
InitRollbackRestores ==
    \A p \in Procs :
        (op[p].kind = "init" /\ pc[p] = "idle" /\ loc[p].flag) =>
            /\ res[p] = "InitializationFailed"
            /\ ~fs.envsDir
            /\ fs.envs = Empty
            /\ fs.claude = orig

\* C12: when a switch has returned that was called with a valid name whose
\* environment exists, with ~/.claude absent or a symbolic link, and with the
\* oracle answering "not running" or force set, it has succeeded, the active
\* link is a symbolic link to that environment and current() is its name.
SwitchPostcondition ==
    \A p \in Procs :
        (/\ op[p].kind = "switch" /\ pc[p] = "idle" /\ res[p] # "crashed"
         /\ validate_environment_name(op[p].name) = "ok"
         /\ environment_exists(op[p].name)
         /\ loc[p].old.k # "dir"
         /\ ~loc[p].running \/ op[p].force) =>
            /\ res[p] = "ok"
            /\ fs.claude = Link(op[p].name)
            /\ get_current_environment = op[p].name

\* C13: a switch called with a valid name whose environment directory does
\* not exist goes no further than the existence test, returns NotFound
\* whatever force and the oracle say, and leaves the active link as it was.
SwitchMissing ==
    [][\A p \in Procs :
         (/\ op[p].kind = "switch" /\ pc[p] # "idle"
          /\ validate_environment_name(op[p].name) = "ok"
          /\ ~environment_exists(op[p].name)) =>
            /\ fs'.claude = fs.claude
            /\ pc'[p] \in {pc[p], "sw_exists", "idle"}
            /\ pc'[p] = "idle" => res'[p] = "NotFound"]_vars

\* A forced switch to a missing environment was refused on an initialized
\* home.
SwitchMissingWitness ==
    \E p \in Procs :
        /\ op[p] = OpRec("switch", ENV_X, <<>>, TRUE)
        /\ pc[p] = "idle"
        /\ res[p] = "NotFound"
        /\ fs.claude = Link(DEFAULT)
        /\ ~environment_exists(ENV_X)

\* C14: a delete of "default", when default exists, changes nothing and
\* returns ProtectedEnvironment, both when default is the active environment
\* and when another one is.
DeleteDefaultProtected ==
    [][\A p \in Procs :
         (/\ op[p].kind = "delete" /\ op[p].name = DEFAULT /\ pc[p] # "idle"
          /\ environment_exists(DEFAULT)) =>
            /\ fs' = fs
            /\ pc'[p] = "idle" => res'[p] = "ProtectedEnvironment"]_vars

\* C14, amended: a delete of "default", when default exists, changes nothing
\* and returns ActiveEnvironment when default is the active environment,
\* ProtectedEnvironment when it is not.
DeleteDefaultRefused ==
    [][\A p \in Procs :
         (/\ op[p].kind = "delete" /\ op[p].name = DEFAULT /\ pc[p] # "idle"
          /\ environment_exists(DEFAULT)) =>
            /\ fs' = fs
            /\ pc'[p] = "idle" =>
                 res'[p] = IF get_current_environment = DEFAULT
                             THEN "ActiveEnvironment"
                             ELSE "ProtectedEnvironment"]_vars

\* A delete of "default" was refused as protected while another environment
\* was active.
DeleteDefaultRefusedWitness ==
    \E p \in Procs :
        /\ op[p].kind = "delete" /\ op[p].name = DEFAULT /\ pc[p] = "idle"
        /\ res[p] = "ProtectedEnvironment"
        /\ fs.claude = Link(ENV_X)
        /\ environment_exists(DEFAULT)

\* C15: a delete of the environment the active link resolves to, "default"
\* included, changes nothing (environment, trash, link) and returns
\* ActiveEnvironment.
DeleteActiveRefused ==
    [][\A p \in Procs :
         (/\ op[p].kind = "delete" /\ pc[p] # "idle"
          /\ op[p].name = get_current_environment
          /\ environment_exists(op[p].name)) =>
            /\ fs' = fs
            /\ pc'[p] = "idle" => res'[p] = "ActiveEnvironment"]_vars

\* Deletes of the active environment were refused: of another than default,
\* which stays in place with the trash holding an earlier backup.
DeleteActiveRefusedWitness ==
    \E p \in Procs :
        /\ op[p] = OpRec("delete", ENV_X, <<>>, FALSE)
        /\ pc[p] = "idle"
        /\ res[p] = "ActiveEnvironment"
        /\ fs.claude = Link(ENV_X)
        /\ environment_exists(ENV_X)
        /\ fs.trash # Empty

\* C20: a successful delete adds exactly one top-level trash entry, under a
\* name no entry had, and leaves every entry that was there as it was.
TrashEntryUnique ==
    [][\A p \in Procs :
         (/\ op[p].kind = "delete" /\ pc[p] = "del_move"
          /\ pc'[p] = "idle" /\ res'[p] = "ok") =>
            /\ \E b \in DOMAIN fs'.trash :
                 /\ b \notin DOMAIN fs.trash
                 /\ DOMAIN fs'.trash = DOMAIN fs.trash \cup {b}
            /\ \A e \in DOMAIN fs.trash : fs'.trash[e] = fs.trash[e]]_vars

\* C16: when restore(t) is the call that follows a successful delete(x) and
\* t is the trash entry that delete named, restore succeeds and returns x,
\* the environment x holds exactly what it held before the delete, and the
\* trash has no entry t.
DeleteRestoreRoundTrip ==
    \A p \in Procs :
        (/\ op[p].kind = "restore" /\ pc[p] = "idle"
         /\ hist.last.node.k = "dir"
         /\ op[p].name = hist.last.entry
         /\ hist.calls = hist.last.at + 1) =>
            /\ res[p] = "ok"
            /\ rsplit2(op[p].name)[1] = hist.last.name
            /\ fs.envsDir
            /\ Get(fs.envs, hist.last.name) = hist.last.node
            /\ hist.last.entry \notin DOMAIN fs.trash

\* ------------------------------------------------------------- the trash listed
\* An initialized home holding default, a and x--, default active.
TrashInit ==
    /\ \E c \in SUBSET Files :
         /\ hist = [orig |-> Dir(c), inited |-> TRUE, calls |-> 0, last |-> NoDelete]
         /\ fs = [InitializedFrom(c) EXCEPT !.envs = [m \in EnvNames |-> Dir(c)]]
    /\ now = 1
    /\ ProcInit /\ LockInit /\ ValInit

\* Caller 1 deletes and lists the trash, one call at a time, as the clock
\* runs.
TrashNext ==
    \/ CallDelete(1, EnvNames, TRUE)
    \/ DelValidate(1)
    \/ DelExists(1)
    \/ DelCurrent(1)
    \/ DelMkTrash(1)
    \/ DelMove(1)
    \/ CallListTrash(1, TRUE)
    \/ LtList(1)
    \/ Tick

SpecTrash == TrashInit /\ [][TrashNext]_vars

\* C17: list_trash returns one entry per trash directory made by delete, each
\* with the name of the environment deleted, and the entry of the latest
\* delete comes first, whatever the clock read at the deletes.
ListTrashNewestFirst ==
    \A p \in Procs :
        (op[p].kind = "list_trash" /\ pc[p] = "idle" /\ res[p] = "ok") =>
            /\ {loc[p].out[i].backup_name : i \in DOMAIN loc[p].out} = DOMAIN fs.trash
            /\ Len(loc[p].out) = Cardinality(DOMAIN fs.trash)
            /\ \A i \in DOMAIN loc[p].out :
                 \E t \in Times : loc[p].out[i].backup_name =
                                    BackupName(loc[p].out[i].name, t)
            /\ hist.last.node.k = "dir" =>
                 loc[p].out[1].backup_name = hist.last.entry

\* The failure create owes its caller p, "" when none: NotInitialized without
\* the environments root, else AlreadyExists when the target exists, else
\* SourceNotFound when the source is no URL and no existing environment.
CreateOwes(p) ==
    IF ~fs.envsDir THEN "NotInitialized"
    ELSE IF environment_exists(op[p].name) THEN "AlreadyExists"
    ELSE IF /\ ~StartsWith(op[p].src, HTTPS)
            /\ ~StartsWith(op[p].src, GIT_AT)
            /\ ~environment_exists(op[p].src) THEN "SourceNotFound"
    ELSE ""

\* The positions of create at which it has only tested.
CreateTests == {"cr_validate", "cr_init", "cr_exists", "cr_source"}

\* C18: a create with a valid name that is owed one of the failures
\* NotInitialized, AlreadyExists, SourceNotFound (in this order) returns it
\* from its tests, and no step of it changes the filesystem.
CreateFailureKinds ==
    [][\A p \in Procs :
         (/\ op[p].kind = "create" /\ pc[p] \in CreateTests
          /\ validate_environment_name(op[p].name) = "ok"
          /\ CreateOwes(p) # "") =>
            /\ fs' = fs
            /\ pc'[p] \in CreateTests \cup {"idle"}
            /\ pc'[p] = "idle" => res'[p] = CreateOwes(p)]_vars

\* A create from a missing source was refused on an initialized home.
CreateFailureKindsWitness ==
    \E p \in Procs :
        /\ op[p] = OpRec("create", ENV_X, ENV_X, FALSE)
        /\ pc[p] = "idle"
        /\ res[p] = "SourceNotFound"
        /\ hist.inited
        /\ list_environments = {DEFAULT}

\* The failures restore owes its caller p: NotFound when the trash has no
\* entry of the name, InvalidBackupFormat when the name has not three parts,
\* AlreadyExists when the environment of the recovered name exists.
RestoreOwes(p) ==
    LET parts == rsplit2(op[p].name)
    IN  (IF fs.trashDir /\ op[p].name \in DOMAIN fs.trash
           THEN {} ELSE {"NotFound"})
        \cup (IF Len(parts) = 3 THEN {} ELSE {"InvalidBackupFormat"})
        \cup (IF Len(parts) = 3 /\ environment_exists(parts[1])
                THEN {"AlreadyExists"} ELSE {})

DeleteEffectAndFrame ==
    [][\A p \in Procs :
         (op[p].kind = "delete" /\ pc[p] = "del_move"
            /\ pc'[p] = "idle" /\ res'[p] = "ok") =>
            LET name == op[p].name
                b == BackupName(name, now)
            IN  /\ fs'.envs = Put(fs.envs, name, None)
                /\ name \notin list_environments'
                /\ fs'.trash = Put(fs.trash, b, Get(fs.envs, name))
                /\ fs'.claude = fs.claude]_vars

\* ------------------------------------------------------------- init, every path
\* Init called alone on a home nobody initialized; a step of its mutation
\* sequence or the removal of its backup may fail, and the caller may die at
\* any step.
InitPathsInit == FreshHome /\ ProcInit /\ LockInit /\ ValInit

InitPathsNext ==
    \/ CallInit(1, TRUE)
    \/ InitSteps(1)
    \/ InFault(1)
    \/ InRmBackupFault(1)
    \/ InitRollback(1)
    \/ Crash(1)

SpecInitPaths == InitPathsInit /\ [][InitPathsNext]_vars

\* C22: when ~/.claude was a configuration directory before init, then in
\* every state of every path of init (success, failure with rollback, death
\* at any step) a complete copy of it is at ~/.claude as a directory, or is
\* the default environment, or is a timestamped backup.
OriginalNeverLost ==
    orig.k = "dir" =>
        \/ fs.claude = orig
        \/ fs.envsDir /\ Get(fs.envs, DEFAULT) = orig
        \/ \E i \in BackupIds : Get(fs.home, BackupBase(i)) = orig

\* C23: when an init call returns, with success or with any failure, no
\* lock is held by it and the lock file is removed; and an init call that
\* tries the lock while every other caller has returned (or has not called)
\* is not rejected with InitInProgress.
InitLockReleased ==
    [][\A p \in Procs :
         /\ (op[p].kind = "init" /\ pc[p] # "idle" /\ pc'[p] = "idle") =>
               /\ lockPath' = 0
               /\ \A i \in Inodes : lockHeld'[i] # p
         /\ (pc[p] = "in_flock" /\ pc'[p] # "in_flock"
                /\ \A q \in Procs \ {p} : pc[q] = "idle") =>
               /\ loc'[p].locked
               /\ loc'[p].err # "InitInProgress"]_vars

\* A caller holds the lock it took after the two others had returned, one
\* with success and one with a failure.
InitLockReleasedWitness ==
    \E p, q, r \in Procs :
        /\ pc[p] = "in_chk_link" /\ loc[p].locked
        /\ op[q].kind = "init" /\ pc[q] = "idle" /\ res[q] = "ok"
        /\ op[r].kind = "init" /\ pc[r] = "idle" /\ res[r] \in InitErrors

\* C24: a switch to an existing environment that finds the application
\* running and has no force returns ApplicationRunning and has changed
\* nothing (active link, temporary link, environments); with force, or with
\* the application not running, the oracle's answer lets the switch go on to
\* its lock.
RunningGuard ==
    [][\A p \in Procs :
         (op[p].kind = "switch" /\ pc[p] = "sw_running" /\ pc'[p] # "sw_running") =>
            /\ environment_exists(op[p].name)
            /\ fs' = fs
            /\ fs.claude = loc[p].old
            /\ IF loc'[p].running /\ ~op[p].force
                 THEN pc'[p] = "idle" /\ res'[p] = "ApplicationRunning"
                 ELSE pc'[p] = "sw_lock"]_vars

\* A switch to an existing environment was refused for the running
\* application.
RunningGuardWitness ==
    \E p \in Procs :
        /\ op[p].kind = "switch" /\ pc[p] = "idle"
        /\ res[p] = "ApplicationRunning"
        /\ loc[p].running /\ ~op[p].force
        /\ environment_exists(op[p].name)

\* ------------------------------------------------------------- switch, a directory at the link's path
\* A home with environments where ~/.claude is a real directory: the link
\* was removed and a directory made in its place behind the program's back.
RealDirHome ==
    /\ \E c \in SUBSET Files : hist = [orig |-> Dir(c), inited |-> TRUE, calls |-> 0, last |-> NoDelete]
    /\ \E others \in SUBSET (EnvNames \ {DEFAULT}), d \in SUBSET Files :
         \E t \in {None} \cup {Link(m) : m \in EnvNames} :
             fs = [InitializedFrom(orig.c) EXCEPT
                     !.envs = [m \in others \cup {DEFAULT} |-> Dir(orig.c)],
                     !.claude = Dir(d),
                     !.tmp = t]
    /\ now = 1

\* One switch at a time by caller 1, who may die at any step, on a home whose
\* ~/.claude is a link or a real directory.
SwitchDirInit == (InitializedHome \/ RealDirHome) /\ ProcInit /\ LockInit /\ ValInit

SpecSwitchDir == SwitchDirInit /\ [][SwitchNext]_vars

\* C25 as stated: when ~/.claude is a real directory, no step of a switch to
\* an existing environment changes the directory, the temporary link or
\* anything else, and the switch returns SymlinkStateError.
SwitchRefusesDirectory ==
    [][\A p \in Procs :
         (op[p].kind = "switch" /\ pc[p] # "idle" /\ loc[p].old.k = "dir"
            /\ validate_environment_name(op[p].name) = "ok"
            /\ environment_exists(op[p].name)) =>
            /\ fs' = fs
            /\ (pc'[p] = "idle" /\ res'[p] # "crashed") =>
                  res'[p] = "SymlinkStateError"]_vars

\* C25, amended: when ~/.claude is a real directory, no step of a switch to
\* an existing environment changes the directory, the temporary link or
\* anything else, and the switch returns ApplicationRunning when the oracle
\* answers "running" and force is not set, SymlinkStateError otherwise.
SwitchNeverClobbersDirectory ==
    [][\A p \in Procs :
         (op[p].kind = "switch" /\ pc[p] # "idle" /\ loc[p].old.k = "dir"
            /\ validate_environment_name(op[p].name) = "ok"
            /\ environment_exists(op[p].name)) =>
            /\ fs' = fs
            /\ (pc'[p] = "idle" /\ res'[p] # "crashed") =>
                  res'[p] = IF loc'[p].running /\ ~op[p].force
                              THEN "ApplicationRunning"
                              ELSE "SymlinkStateError"]_vars

\* A switch to an existing environment found the real directory and refused.
SwitchNeverClobbersDirectoryWitness ==
    \E p \in Procs :
        /\ op[p].kind = "switch" /\ pc[p] = "idle"
        /\ res[p] = "SymlinkStateError"
        /\ environment_exists(op[p].name)
        /\ fs.claude.k = "dir" /\ fs.claude = loc[p].old

\* ------------------------------------------------------------- switch with a failing replace
\* Caller 1 switches once, and its replace may fail; caller 2, another
\* process, deletes an environment once.
SwitchFaultNext ==
    \/ FirstCall(1) /\ CallSwitch(1, EnvNames, FALSE)
    \/ SwValidate(1)
    \/ SwExists(1)
    \/ SwRunning(1)
    \/ SwLock(1, TRUE)
    \/ SwState(1)
    \/ SwTmpChk(1)
    \/ SwTmpUnlink(1)
    \/ SwSymlink(1)
    \/ SwReplace(1)
    \/ SwReplaceFault(1)
    \/ SwExcept(1)
    \/ FirstCall(2) /\ CallDelete(2, EnvNames, FALSE)
    \/ DelValidate(2)
    \/ DelExists(2)
    \/ DelCurrent(2)
    \/ DelMkTrash(2)
    \/ DelMove(2)

SpecSwitchFault == SwitchInit /\ [][SwitchFaultNext]_vars

\* C26: when a switch has returned whose replace failed after it had made
\* the temporary link, the temporary link is gone, the error is the one the
\* replace raised, and the active link is what it was at the call.
SwitchFailureCleanup ==
    \A p \in Procs :
        (op[p].kind = "switch" /\ pc[p] = "idle" /\ loc[p].flag) =>
            /\ fs.tmp = None
            /\ res[p] = "OSError"
            /\ fs.claude = loc[p].old

\* ------------------------------------------------------------- switch, threads of one process
\* Every caller is a thread of one process and calls switch once; their steps
\* interleave in every order and they share _switch_lock.
SwitchThreadsNext ==
    \E p \in Procs :
        \/ FirstCall(p) /\ CallSwitch(p, EnvNames, FALSE)
        \/ SwValidate(p)
        \/ SwExists(p)
        \/ SwRunning(p)
        \/ SwLock(p, TRUE)
        \/ SwState(p)
        \/ SwTmpChk(p)
        \/ SwTmpUnlink(p)
        \/ SwSymlink(p)
        \/ SwReplace(p)
        \/ SwExcept(p)

\* An initialized home whose original configuration was empty and whose link
\* points at default.
SwitchThreadsInit == SwitchInit /\ orig = Dir({}) /\ fs.claude = Link(DEFAULT)

SpecSwitchThreads == SwitchThreadsInit /\ [][SwitchThreadsNext]_vars

\* The positions inside "with _switch_lock".
SwitchSection == {"sw_state", "sw_tmpchk", "sw_tmpunlink", "sw_symlink",
                  "sw_replace", "sw_except"}

\* The threads that have called switch.
Switchers == {p \in Procs : op[p].kind = "switch"}

\* C27: when threads of one process switch concurrently to existing
\* environments (the application not running, or force set), at most one of
\* them is between taking and leaving the lock, and when all have returned
\* every call has succeeded and the active link is a symbolic link to the
\* existing environment of one of the calls.
ThreadedSwitches ==
    /\ Cardinality({p \in Procs : pc[p] \in SwitchSection}) <= 1
    /\ (/\ Switchers # {}
        /\ \A p \in Switchers :
             /\ pc[p] = "idle"
             /\ loc[p].pre
             /\ op[p].force \/ ~loc[p].running) =>
          /\ \A p \in Switchers : res[p] = "ok"
          /\ \E p \in Switchers :
               fs.claude = Link(op[p].name) /\ environment_exists(op[p].name)

\* The filesystem f but for the environment of the given name.
AllBut(f, name) == [f EXCEPT !.envs = Put(f.envs, name, None)]

ListedNamesAreEnvironments ==
    \A n \in list_environments :
        /\ validate_environment_name(n) = "ok"
        /\ n # DOT_TRASH
        /\ ~StartsWith(n, DOT_TMP)

\* ------------------------------------------------------------- current alone
\* The link targets a hand may give ~/.claude: environments, a sibling of the
\* environments root, a directory inside an environment.
SIBLING == DOT_DOT \o <<"/">> \o ENV_A
INSIDE == DEFAULT \o <<"/">> \o ENV_A
LinkTargets == EnvNames \cup {SIBLING, INSIDE}

\* Homes with and without environments, where ~/.claude is absent, a
\* directory, or a link to any of the targets, and the environment a is
\* absent, a directory, or a link to default.
CurrentHome ==
    /\ \E c \in SUBSET Files, n \in {None} \cup {Dir(d) : d \in SUBSET Files}
                                  \cup {Link(t) : t \in LinkTargets} :
         /\ hist = [orig |-> Dir(c), inited |-> TRUE, calls |-> 0, last |-> NoDelete]
         /\ \/ fs = HomeWith(n)
            \/ \E a \in {None, Dir(c), Link(DEFAULT)}, x \in {None, Dir(c)} :
                 fs = [InitializedFrom(c) EXCEPT
                         !.envs = Put(Put(Put(Empty, DEFAULT, Dir(c)), ENV_A, a), ENV_X, x),
                         !.claude = n]
    /\ now = 1

CurrentInit == CurrentHome /\ ProcInit /\ LockInit /\ ValInit

CurrentNext ==
    \/ CallCurrent(1, TRUE)
    \/ CurIsSymlink(1)
    \/ CurResolve(1)

SpecCurrent == CurrentInit /\ [][CurrentNext]_vars

\* C30: no step of current() changes anything and it never fails; it
\* returns the name of the directory ~/.claude resolves to when ~/.claude is
\* a symbolic link and that directory's parent is the environments root, and
\* None (the empty list) when ~/.claude is absent, a real directory, or a
\* link that resolves elsewhere.
CurrentTotalReadOnly ==
    [][\A p \in Procs :
         (op[p].kind = "current" /\ pc[p] # "idle") =>
            /\ fs' = fs
            /\ pc'[p] = "idle" =>
                 /\ res'[p] = "ok"
                 /\ loc'[p].out =
                      IF /\ fs.claude.k = "link"
                         /\ ResolvedClaude.ok
                         /\ Len(ResolvedClaude.at) = Len(ENVS_AT) + 1
                         /\ SubSeq(ResolvedClaude.at, 1, Len(ENVS_AT)) = ENVS_AT
                        THEN <<ResolvedClaude.at[Len(ResolvedClaude.at)]>>
                        ELSE <<>>]_vars

\* current() has answered None for a link that resolves to a sibling of the
\* environments root.
CurrentTotalReadOnlyWitness ==
    \E p \in Procs :
        /\ op[p].kind = "current" /\ pc[p] = "idle" /\ res[p] = "ok"
        /\ fs.claude = Link(SIBLING)
        /\ loc[p].out = <<>>

\* ------------------------------------------------------------- create from a remote, alone
\* An initialized home; a create that was killed may have left its temporary
\* directory, partly written, for the name x--.
CloneHome ==
    /\ \E c \in SUBSET Files : hist = [orig |-> Dir(c), inited |-> TRUE, calls |-> 0, last |-> NoDelete]
    /\ \E left \in {None, [Repo EXCEPT !.c = {}]} :
         fs = [InitializedFrom(orig.c) EXCEPT
                 !.envs = Put(Put(Empty, DEFAULT, Dir(orig.c)), TempName(ENV_X), left)]
    /\ now = 1

CloneInit == CloneHome /\ ProcInit /\ LockInit /\ ValInit

\* Caller 1 creates environments from remote sources, one call at a time;
\* git and every later step of the clone may fail.
CloneNext ==
    \/ CallCreate(1, {DEFAULT, ENV_A, ENV_X}, {URL_OK, URL_BAD}, TRUE)
    \/ CrValidate(1)
    \/ CrInit(1)
    \/ CrExists(1)
    \/ CrSource(1)
    \/ ClClone(1)
    \/ ClRmGit(1)
    \/ ClRmTarget(1)
    \/ ClMove(1)
    \/ ClFault(1)
    \/ ClExcept(1)

SpecClone == CloneInit /\ [][CloneNext]_vars

\* The positions of a create from a remote source, from the test of the URL
\* to the end of the clone.
CloneSteps == {"cr_source", "cl_clone", "cl_rmgit", "cl_rmtarget", "cl_move",
               "cl_except"}

RemoteCreateAllOrNothing ==
    [][\A p \in Procs :
         (op[p].kind = "create" /\ pc[p] \in CloneSteps
            /\ (StartsWith(op[p].src, HTTPS) \/ StartsWith(op[p].src, GIT_AT))) =>
            /\ Get(fs.envs, op[p].name).k = "none"
            /\ Get(fs'.envs, op[p].name) \in {None, Dir(RepoFiles)}
            /\ Get(fs'.envs, op[p].name) # None =>
                  /\ pc[p] = "cl_move" /\ pc'[p] = "idle" /\ res'[p] = "ok"
                  /\ Get(fs.envs, TempName(op[p].name)) = Dir(RepoFiles)
                  /\ Get(fs'.envs, TempName(op[p].name)) = None]_vars

\* A create from a remote source has made its environment.
RemoteCreateAllOrNothingWitness ==
    \E p \in Procs :
        /\ op[p].kind = "create" /\ op[p].src = URL_OK
        /\ pc[p] = "idle" /\ res[p] = "ok"
        /\ Get(fs.envs, op[p].name) = Dir(RepoFiles)

\* ------------------------------------------------------------- switch, two processes
\* An initialized home with every environment, the link at default and no
\* temporary link.
SwitchProcsInit ==
    /\ SwitchInit
    /\ orig = Dir({})
    /\ DOMAIN fs.envs = EnvNames
    /\ fs.claude = Link(DEFAULT)
    /\ fs.tmp = None

\* Two processes call switch once each; they share no lock and their steps
\* interleave in every order.
SwitchProcsNext ==
    \E p \in TwoProcs :
        \/ FirstCall(p) /\ CallSwitch(p, EnvNames, FALSE)
        \/ SwValidate(p)
        \/ SwExists(p)
        \/ SwRunning(p)
        \/ SwLock(p, FALSE)
        \/ SwState(p)
        \/ SwTmpChk(p)
        \/ SwTmpUnlink(p)
        \/ SwSymlink(p)
        \/ SwReplace(p)
        \/ SwExcept(p)

SpecSwitchProcs == SwitchProcsInit /\ [][SwitchProcsNext]_vars

\* C33: when two processes switch concurrently to two different existing
\* environments (the application not running, or force set), the replace of
\* each call installs a link to that call's own target and each call
\* returns success.
CrossProcessSwitch ==
    [][(/\ \A p \in TwoProcs : op[p].kind = "switch"
        /\ op[1].name # op[2].name) =>
          \A p \in TwoProcs :
            /\ (pc[p] = "sw_replace" /\ fs'.claude # fs.claude) =>
                  fs'.claude = Link(op[p].name)
            /\ (pc[p] # "idle" /\ pc'[p] = "idle"
                  /\ (op[p].force \/ ~loc'[p].running)) =>
                  res'[p] = "ok"]_vars

\* C34: a switch to an existing environment that has passed its tests goes
\* through its create-and-replace section without an error and returns
\* success, whatever temporary link an earlier switch that died has left,
\* a link to an environment deleted since included.
StaleLinkNeverBlocks ==
    [][\A p \in Procs :
         (op[p].kind = "switch"
            /\ pc[p] \in {"sw_tmpchk", "sw_tmpunlink", "sw_symlink", "sw_replace"}
            /\ pc'[p] # pc[p] /\ res'[p] # "crashed") =>
            /\ pc'[p] # "sw_except"
            /\ pc'[p] = "idle" => res'[p] = "ok"]_vars

\* C35: once an init call has returned success, in every later state, while
\* and after the other init calls run, the environments root and default
\* exist, default holds the original configuration, and ~/.claude is a
\* symbolic link to default.
SuccessfulInitStays ==
    hist.inited =>
        /\ fs.envsDir
        /\ Get(fs.envs, DEFAULT) = (IF orig.k = "dir" THEN orig ELSE Dir({}))
        /\ fs.claude = Link(DEFAULT)

\* ------------------------------------------------------------- create, with I/O faults
\* The copy of one listed entry raises an OSError: copytree collects it, goes
\* on with the other entries and raises shutil.Error at the end.
CrCopyFault(p) ==
    /\ pc[p] = "cr_copy"
    /\ loc[p].ents # {}
    /\ \E f \in loc[p].ents :
         loc' = [loc EXCEPT ![p].ents = loc[p].ents \ {f}, ![p].flag = TRUE]
    /\ UNCHANGED <<fs, pc, res, lockvars, valvars, now, hist, op>>

\* Caller 1 creates environments from environments and from a repository, one
\* call at a time, on an initialized home; the copy of an entry and every
\* step of a clone may fail.
CreateFaultNext ==
    \/ CallCreate(1, EnvNames, {DEFAULT, ENV_A, URL_OK}, TRUE)
    \/ CrValidate(1)
    \/ CrInit(1)
    \/ CrExists(1)
    \/ CrSource(1)
    \/ CrScandir(1)
    \/ CrMakedirs(1)
    \/ CrCopy(1)
    \/ CrCopyFault(1)
    \/ ClClone(1)
    \/ ClRmGit(1)
    \/ ClRmTarget(1)
    \/ ClMove(1)
    \/ ClFault(1)
    \/ ClExcept(1)

SpecCreateFault == CreateRaceInit /\ [][CreateFaultNext]_vars

\* C36: when a create called for a name that was not an environment returns a
\* failure of any kind, a failure of the recursive copy part-way included, no
\* environment of that name exists and list() does not show it.
FailedCreateLeavesNothing ==
    [][\A p \in Procs :
         (op[p].kind = "create" /\ loc[p].pre
            /\ pc[p] # "idle" /\ pc'[p] = "idle"
            /\ res'[p] \notin {"ok", "crashed"}) =>
            /\ ~environment_exists(op[p].name)'
            /\ op[p].name \notin list_environments']_vars

\* C37: no step at which a create places its result (the making of the target
\* directory by the copy, the steps of a clone) removes or changes an
\* environment directory of that name that exists when the step is taken,
\* other creates of the same name running concurrently or not.
PlacingSteps == {"cr_makedirs", "cl_clone", "cl_rmgit", "cl_rmtarget", "cl_move",
                 "cl_except"}
CreateNeverDestroys ==
    [][\A p \in Procs :
         (op[p].kind = "create" /\ pc[p] \in PlacingSteps /\ pc'[p] # pc[p]
            /\ environment_exists(op[p].name)) =>
            Get(fs.envs, op[p].name)' = Get(fs.envs, op[p].name)]_vars

\* ------------------------------------------------------------- create, any source
\* The sources create is called with: names of environments, and strings
\* with path separators that lead to an environment, to a backup in the
\* trash and to a directory beside the environments root.
DEFAULT_DOT == DEFAULT \o <<"/", ".">>
IN_TRASH == DOT_TRASH \o <<"/">> \o BackupName(ENV_X, 1)
PathSources == {DEFAULT, ENV_X, DEFAULT_DOT, IN_TRASH, SIBLING}

\* An initialized home, with or without a backup of x-- in the trash and a
\* directory ~/a of the user's own.
SourceHome ==
    /\ \E c \in SUBSET Files : hist = [orig |-> Dir(c), inited |-> TRUE, calls |-> 0, last |-> NoDelete]
    /\ \E a \in {None} \cup {Dir(h) : h \in SUBSET Files}, b \in {None, Dir(orig.c)} :
         fs = [InitializedFrom(orig.c) EXCEPT
                 !.home = Put(Empty, ENV_A, a),
                 !.trashDir = b.k = "dir",
                 !.trash = Put(Empty, BackupName(ENV_X, 1), b)]
    /\ now = 1

SourceInit == SourceHome /\ ProcInit /\ LockInit /\ ValInit

\* Caller 1 creates environments from these sources, one call at a time.
SourceNext ==
    \/ CallCreate(1, {ENV_A, ENV_X}, PathSources, TRUE)
    \/ CrValidate(1)
    \/ CrInit(1)
    \/ CrExists(1)
    \/ CrSource(1)
    \/ CrScandir(1)
    \/ CrMakedirs(1)
    \/ CrCopy(1)

SpecCreateSource == SourceInit /\ [][SourceNext]_vars

\* source_env = get_env_path(source) is an entry of the environments root
\* other than the trash.
SourceIsEnvironment(p) ==
    LET r == Resolve(ENVS_AT, op[p].src)
    IN  /\ r.ok
        /\ Len(r.at) = 2
        /\ r.at[1] = DOT_CLAUDE_ENVS
        /\ r.at[2] # DOT_TRASH

\* C38: a create whose source is not a URL, whatever the string, fails or
\* copies from a directory that is an entry of the environments root: the
\* copy lists no directory that is not one.
CreateSourceConfined ==
    [][\A p \in Procs :
         (op[p].kind = "create" /\ pc[p] = "cr_scandir"
            /\ pc'[p] = "cr_makedirs") => SourceIsEnvironment(p)]_vars

\* backup_path = trash_dir / backup_name is an entry of the trash.
BackupIsTrashEntry(p) ==
    LET r == Resolve(TRASH_AT, op[p].name)
    IN  r.ok /\ Len(r.at) = 3 /\ SubSeq(r.at, 1, 2) = TRASH_AT

\* target_path = get_env_path(name) is an entry of the environments root
\* with a valid name.
TargetIsEnvironment(p) ==
    LET name == rsplit2(op[p].name)[1]
        r == Resolve(ENVS_AT, name)
    IN  /\ validate_environment_name(name) = "ok"
        /\ r.ok /\ r.at = Append(ENVS_AT, name)

\* C39: a restore that moves anything, whatever the backup name it was given,
\* moves an entry of the trash to an entry of the environments root with a
\* valid name, and leaves every environment directory as it was.
RestoreConfined ==
    [][\A p \in Procs :
         (op[p].kind = "restore" /\ pc[p] = "rs_move" /\ fs' # fs) =>
            /\ BackupIsTrashEntry(p)
            /\ TargetIsEnvironment(p)
            /\ \A n \in DOMAIN fs.envs :
                 n \in DOMAIN fs'.envs /\ fs'.envs[n] = fs.envs[n]]_vars

====
